---------------------------- MODULE Spec2Model ----------------------------
(***************************************************************************)
(* State-machine model of the FreeGSNKE evolutive solver:                  *)
(*   - implicit_euler_solver      (src/freegsnke/implicit_euler.py)        *)
(*   - NewtonKrylov.solve         (src/freegsnke/newtonkrylov.py)          *)
(*   - nl_solver                  (src/freegsnke/nonlinear_solve.py)       *)
(*   - Equilibrium                (src/freegsnke/equilibrium_update.py)    *)
(*   - ConstrainBetapIp, ConstrainPaxisIp (src/freegsnke/jtor_update.py)   *)
(*                                                                         *)
(* Floating-point quantities are modelled exactly: times are integer       *)
(* ticks, quotients are reduced fractions <<num, den>>, and the results of *)
(* the numerical collaborators (static GS solves, Jtor, the linearised and *)
(* simplified circuit solvers, Arnoldi updates) are drawn from small sets. *)
(***************************************************************************)
EXTENDS Integers, Sequences, FiniteSets, TLC

VARIABLES
    ie,        \* the implicit_euler_solver object
    ie_out,    \* what the last implicit_euler_solver call returned / did
    ie_called, \* the implicit_euler_solver methods called since construction
    nks,       \* the activation of NewtonKrylov.solve and what it left in eq
    nl,        \* the nl_solver object (its attributes are the record's fields)
    call,      \* the activation of nl_solver.nlstepper: position and locals
    eqm,       \* the Equilibrium object and what its last method call did
    prof       \* the profile object and what its last Jtor call did

eulerVars == <<ie, ie_out, ie_called>>
nkVars == <<nks>>
nlVars == <<nl, call>>
updVars == <<eqm, prof>>
vars == <<ie, ie_out, ie_called, nks, nl, call, eqm, prof>>

-----------------------------------------------------------------------------
(* Exact rational arithmetic: a fraction is <<n, d>> with d > 0, reduced.  *)

Abs(x) == IF x < 0 THEN -x ELSE x

RECURSIVE GCD(_, _)
GCD(a, b) == IF b = 0 THEN a ELSE GCD(b, a % b)

Frac(n, d) ==
    LET s == IF d < 0 THEN -1 ELSE 1
        g == GCD(Abs(n), Abs(d))
    IN  IF n = 0 THEN <<0, 1>> ELSE <<(s * n) \div g, (s * d) \div g>>

FInt(k) == <<k, 1>>
FAdd(a, b) == Frac(a[1] * b[2] + b[1] * a[2], a[2] * b[2])
FMul(a, b) == Frac(a[1] * b[1], a[2] * b[2])
FInv(a) == Frac(a[2], a[1])
FLeq(a, b) == a[1] * b[2] <= b[1] * a[2]

-----------------------------------------------------------------------------
(* implicit_euler_solver, for a one-conductor system (dims = 1): Mmatrix   *)
(* and Rmatrix are 1x1, so inv and @ are the scalar operations.            *)

\* the matrices and timesteps the callers hand in
Mvalues == {1, 2}
Rvalues == {1, 3}
\* <<full_timestep, max_internal_timestep>> in ticks of 1/2000 of the unit
TimestepPairs == {<<1, 2000>>, <<2000, 2000>>, <<2001, 2000>>, <<4000, 2000>>,
                  <<3, 1>>, <<7, 2>>}
Currents == {0, 1}
Forcings == {0, 1}

\* the literal .999 of set_timesteps, as 999/1000
RoundUpNum == 999
RoundUpDen == 1000

\* int(full_timestep/max_internal_timestep + .999), for positive arguments
NSteps(full_timestep, max_internal_timestep) ==
    (RoundUpDen * full_timestep + RoundUpNum * max_internal_timestep)
        \div (RoundUpDen * max_internal_timestep)

\* np.linalg.inv(np.eye(n) + internal_timestep*Mmatrixm1@Rmatrix)
InverseOperator(Mmatrixm1, Rmatrix, internal_timestep) ==
    FInv(FAdd(FInt(1), FMul(internal_timestep, FMul(Mmatrixm1, FInt(Rmatrix)))))

calc_inverse_operator(s) ==
    [s EXCEPT !.inverse_operator =
        InverseOperator(s.Mmatrixm1, s.Rmatrix, s.internal_timestep)]

\* set_timesteps: full_timestep/n_steps raises ZeroDivisionError when
\* n_steps = 0, after the first three assignments have been made
SetTimestepsFields(s, full_timestep, max_internal_timestep) ==
    LET n  == NSteps(full_timestep, max_internal_timestep)
        s1 == [s EXCEPT !.full_timestep = full_timestep,
                        !.max_internal_timestep = max_internal_timestep,
                        !.n_steps = n]
    IN  IF n = 0 THEN s1
        ELSE calc_inverse_operator(
                 [s1 EXCEPT !.internal_timestep = Frac(full_timestep, n)])

\* __init__: an object exists only when set_timesteps did not raise
IEConstructed(Mmatrix, Rmatrix, full_timestep, max_internal_timestep) ==
    SetTimestepsFields(
        [Mmatrix |-> Mmatrix, Mmatrixm1 |-> FInv(FInt(Mmatrix)),
         Rmatrix |-> Rmatrix, full_timestep |-> 0, max_internal_timestep |-> 0,
         n_steps |-> 0, internal_timestep |-> <<0, 1>>,
         inverse_operator |-> <<0, 1>>],
        full_timestep, max_internal_timestep)

NoCall == [op |-> "none", It |-> <<0, 1>>, substeps |-> 0,
           elapsed |-> <<0, 1>>, raised |-> FALSE]

EulerBuilt ==
    /\ \E M \in Mvalues, R \in Rvalues, t \in TimestepPairs :
          /\ NSteps(t[1], t[2]) >= 1
          /\ ie = IEConstructed(M, R, t[1], t[2])
    /\ ie_out = NoCall
    /\ ie_called = {}

\* the object as the other specifications hold it: built once, never called
EulerFixed ==
    /\ ie = IEConstructed(1, 1, 2000, 2000)
    /\ ie_out = NoCall
    /\ ie_called = {}

set_Mmatrix_NoRecalc(Mmatrix) ==
    /\ ie' = [ie EXCEPT !.Mmatrix = Mmatrix, !.Mmatrixm1 = FInv(FInt(Mmatrix))]
    /\ ie_called' = ie_called \cup {"set_Mmatrix"}
    /\ ie_out' = [NoCall EXCEPT !.op = "set_Mmatrix"]

set_Mmatrix(Mmatrix) ==
    /\ ie' = calc_inverse_operator(
                 [ie EXCEPT !.Mmatrix = Mmatrix,
                            !.Mmatrixm1 = FInv(FInt(Mmatrix))])
    /\ ie_called' = ie_called \cup {"set_Mmatrix"}
    /\ ie_out' = [NoCall EXCEPT !.op = "set_Mmatrix"]

set_Rmatrix_NoRecalc(Rmatrix) ==
    /\ ie' = [ie EXCEPT !.Rmatrix = Rmatrix]
    /\ ie_called' = ie_called \cup {"set_Rmatrix"}
    /\ ie_out' = [NoCall EXCEPT !.op = "set_Rmatrix"]

set_Rmatrix(Rmatrix) ==
    /\ ie' = calc_inverse_operator([ie EXCEPT !.Rmatrix = Rmatrix])
    /\ ie_called' = ie_called \cup {"set_Rmatrix"}
    /\ ie_out' = [NoCall EXCEPT !.op = "set_Rmatrix"]

set_timesteps(full_timestep, max_internal_timestep) ==
    /\ ie' = SetTimestepsFields(ie, full_timestep, max_internal_timestep)
    /\ ie_called' = ie_called \cup {"set_timesteps"}
    /\ ie_out' = [NoCall EXCEPT !.op = "set_timesteps",
                    !.raised = (NSteps(full_timestep, max_internal_timestep) = 0)]

\* one sub-step: inverse_operator@(Mm1forcing*internal_timestep + It)
internal_stepper(s, It, Mm1forcing) ==
    FMul(s.inverse_operator, FAdd(FMul(Mm1forcing, s.internal_timestep), It))

\* the loop of full_stepper, `left` iterations to go; returns the current,
\* the number of sub-steps taken and the time they cover
RECURSIVE FullStepperLoop(_, _, _, _, _, _)
FullStepperLoop(s, It, Mm1forcing, left, done, elapsed) ==
    IF left <= 0 THEN [It |-> It, substeps |-> done, elapsed |-> elapsed]
    ELSE FullStepperLoop(s, internal_stepper(s, It, Mm1forcing), Mm1forcing,
                         left - 1, done + 1, FAdd(elapsed, s.internal_timestep))

full_stepper(It, forcing) ==
    LET Mm1forcing == FMul(ie.Mmatrixm1, FInt(forcing))
        r == FullStepperLoop(ie, FInt(It), Mm1forcing, ie.n_steps, 0, <<0, 1>>)
    IN  /\ ie_out' = [op |-> "full_stepper", It |-> r.It,
                      substeps |-> r.substeps, elapsed |-> r.elapsed,
                      raised |-> FALSE]
        /\ ie_called' = ie_called \cup {"full_stepper"}
        /\ UNCHANGED ie

call_internal_stepper(It, Mm1forcing) ==
    /\ ie_out' = [op |-> "internal_stepper",
                  It |-> internal_stepper(ie, FInt(It), FInt(Mm1forcing)),
                  substeps |-> 1, elapsed |-> ie.internal_timestep,
                  raised |-> FALSE]
    /\ ie_called' = ie_called \cup {"internal_stepper"}
    /\ UNCHANGED ie

EulerStep ==
    \/ \E M \in Mvalues : set_Mmatrix(M)
    \/ \E R \in Rvalues : set_Rmatrix(R)
    \/ \E t \in TimestepPairs : set_timesteps(t[1], t[2])
    \/ \E It \in Currents, f \in Forcings : full_stepper(It, f)
    \/ \E It \in Currents, f \in Forcings : call_internal_stepper(It, f)

-----------------------------------------------------------------------------
(* NewtonKrylov.solve.  Relative residuals are levels 0..MaxRel or NaN; a  *)
(* flux is named by the number of updates that produced it.  F, Arnoldi    *)
(* and dpsi are numerical: the residual of each new flux is any level.     *)

MaxRel == 3
MaxIterBound == 3
NaN == -1
RelValues == (0 .. MaxRel) \cup {NaN}
Tolerances == {1, 2}

\* a > b on floats: false as soon as one side is NaN
Gt(a, b) == a # NaN /\ b # NaN /\ a > b

\* the level of the literal .1 of the initial-change warning
WarnThreshold == 2

NKIdle == [pc |-> "idle", it |-> 0, max_iter |-> 0, rel_convergence |-> 1,
           rel_change |-> 0, trial_plasma_psi |-> 0, eq_plasma_psi |-> 0,
           warned |-> FALSE, reported |-> FALSE]

\* while rel_change>rel_convergence and it<max_iter
solve_loop_condition_StopsEarly(s) ==
    Gt(s.rel_change, s.rel_convergence) /\ s.it < s.max_iter - 1

solve_loop_condition(s) ==
    Gt(s.rel_change, s.rel_convergence) /\ s.it < s.max_iter

\* solve, up to the loop: trial_plasma_psi is eq.plasma_psi itself
solve_enter(rel_convergence, max_iter, rel_change) ==
    /\ nks.pc \in {"idle", "done"}
    /\ nks' = [pc |-> "loop", it |-> 0, max_iter |-> max_iter,
               rel_convergence |-> rel_convergence, rel_change |-> rel_change,
               trial_plasma_psi |-> 0, eq_plasma_psi |-> 0,
               warned |-> Gt(rel_change, WarnThreshold), reported |-> FALSE]

\* one pass of the loop body: trial_plasma_psi += dpsi acts in place on the
\* array eq.plasma_psi names, then the residual is evaluated again
solve_iteration(rel_change) ==
    /\ nks.pc = "loop"
    /\ solve_loop_condition(nks)
    /\ nks' = [nks EXCEPT !.trial_plasma_psi = @ + 1, !.eq_plasma_psi = @ + 1,
                          !.rel_change = rel_change, !.it = @ + 1]

\* after the loop: store the flux, print the report if not it<max_iter
solve_return ==
    /\ nks.pc = "loop"
    /\ ~solve_loop_condition(nks)
    /\ nks' = [nks EXCEPT !.pc = "done",
                          !.eq_plasma_psi = nks.trial_plasma_psi,
                          !.reported = ~(nks.it < nks.max_iter)]

NKStep ==
    \/ \E tol \in Tolerances, m \in 0 .. MaxIterBound, r \in RelValues :
           solve_enter(tol, m, r)
    \/ \E r \in RelValues : solve_iteration(r)
    \/ solve_return

-----------------------------------------------------------------------------
(* nl_solver.  Current vectors are sequences (active coils, vessel modes,  *)
(* Ip/plasma_norm_factor); a plasma flux is a level in PsiValues; the      *)
(* current density a profile holds is the term Jtor(...) of what it was    *)
(* computed from.  The active voltages only enter the numerical results,   *)
(* which are drawn from the sets below.                                    *)

NCoils == 3
PriorSteps == 1
MaxCycles == 1
CountCap == 2

PlasmaNormFactor == 1000
CurrentValues == {0, 1}
PsiValues == {0, 1}
\* the current vectors met: all entries at one level
CurrentVectors(n) == {[i \in 1 .. n |-> v] : v \in CurrentValues}

\* residual levels met by the stepper, against tolerances of level 1
CurrentResiduals == {1, 2, NaN}
\* the relative current residuals met: within tolerance on every entry but
\* possibly the last
ResidualVectors(n) ==
    {[i \in 1 .. n |-> IF i = n THEN r ELSE 1] : r \in CurrentResiduals}
GSResiduals == {0, 2}
Inf == MaxRel + 1
NoValue == 0 - 2

\* a / d on floats, for a >= 0 and d in {0, 1}
RelDiv(a, d) == IF d # 0 THEN a \div d ELSE IF a = 0 THEN NaN ELSE Inf

\* np.amax(x) - np.amin(x) of the difference of two fluxes
FluxStepRange(psi_a, psi_b) == Abs(psi_a - psi_b)

Last(v) == v[Len(v)]
Metal(v) == SubSeq(v, 1, Len(v) - 1)
Sat(n, cap) == IF n >= cap THEN cap ELSE n

\* what a call has run so far, each count up to CountCap: the linearised
\* stepper, static GS solves, F_function_curr / F_function_psi evaluations,
\* step_complete_assign
NoOps == [linear |-> 0, gs |-> 0, residual |-> 0, commits |-> 0]
Ran(s, what) == [s EXCEPT !.ops[what] = Sat(@ + 1, CountCap)]

\* evol_metal_curr.IdtoIvessel: the filament currents of the mode currents
IdtoIvessel(Id) == [i \in 1 .. NCoils |-> IF i <= Len(Id) THEN Id[i] ELSE 0]

\* profile.Jtor(R, Z, tokamak_psi + plasma_psi): the field, as a term
Jtor(tokamak_psi, plasma_psi, profile) ==
    [tokamak_psi |-> tokamak_psi, plasma_psi |-> plasma_psi,
     Ip |-> profile.Ip, pars |-> profile.pars]

\* 2*pi*plasma_resistivity*eq.R/(dR*dZ) on the plasma domain (one point,
\* geometric factor GeomFactor)
GeomFactor == 3
PlasmaResistance1d(plasma_resistivity) == GeomFactor * plasma_resistivity

\* relative_threshold_difference=0.01, as 1/ThresholdDen
ThresholdDen == 100

\* assign_currents(currents_vec, eq, profile) on the pair (eq1, profiles1)
\* for k = 1 and (eq2, profiles2) for k = 2
assign_currents(s, currents_vec, k) ==
    LET ves == IdtoIvessel(Metal(currents_vec))
        Ip  == PlasmaNormFactor * Last(currents_vec)
    IN  IF k = 1
        THEN [s EXCEPT !.vessel_currents_vec = ves,
                       !.eq1 = [@ EXCEPT !.current = Ip, !.tokamak = ves],
                       !.profiles1 = [@ EXCEPT !.Ip = Ip]]
        ELSE [s EXCEPT !.vessel_currents_vec = ves,
                       !.eq2 = [@ EXCEPT !.current = Ip, !.tokamak = ves],
                       !.profiles2 = [@ EXCEPT !.Ip = Ip]]

\* NK.forward_solve(eq2, profiles2, rtol): the static GS solve leaves the
\* flux psi_new in eq2 and the matching current density in profiles2
forward_solve(s, psi_new) ==
    [Ran(s, "gs") EXCEPT !.eq2 = [@ EXCEPT !.plasma_psi = psi_new],
              !.profiles2 = [@ EXCEPT !.jtor =
                                 Jtor(s.eq2.tokamak, psi_new, s.profiles2)]]

assign_currents_solve_GS(s, currents_vec, psi_new) ==
    forward_solve(assign_currents(s, currents_vec, 2), psi_new)

\* profile_parameters: [given |-> FALSE] stands for None
check_and_change_profiles(s, profile_parameters) ==
    IF profile_parameters.given
    THEN [s EXCEPT !.profiles1 = [@ EXCEPT !.pars = profile_parameters.pars],
                   !.profiles2 = [@ EXCEPT !.pars = profile_parameters.pars],
                   !.profile_change_flag = 1]
    ELSE [s EXCEPT !.profile_change_flag = 0]

\* linear_solver.reset_plasma_resistivity and
\* simplified_solver_J1.reset_plasma_resistivity: the solver keeps the vector
solver_reset_plasma_resistivity(solver, plasma_resistance_1d) ==
    [solver EXCEPT !.plasma_resistance_1d = plasma_resistance_1d]

\* reset_plasma_resistivity that leaves the simplified solver as it was
reset_plasma_resistivity_SkipsSimplified(s, plasma_resistivity) ==
    LET r1d == PlasmaResistance1d(plasma_resistivity)
    IN  [s EXCEPT !.plasma_resistivity = plasma_resistivity,
                  !.plasma_resistance_1d = r1d,
                  !.linearised_sol = solver_reset_plasma_resistivity(@, r1d),
                  !.evol_plasma_curr = [@ EXCEPT !.Ryy = r1d]]

reset_plasma_resistivity(s, plasma_resistivity) ==
    LET r1d == PlasmaResistance1d(plasma_resistivity)
    IN  [s EXCEPT !.plasma_resistivity = plasma_resistivity,
                  !.plasma_resistance_1d = r1d,
                  !.linearised_sol = solver_reset_plasma_resistivity(@, r1d),
                  !.simplified_solver_J1 = solver_reset_plasma_resistivity(@, r1d),
                  !.evol_plasma_curr = [@ EXCEPT !.Ryy = r1d]]

\* plasma_resistivity: [given |-> FALSE] stands for None
check_and_change_plasma_resistivity(s, plasma_resistivity) ==
    IF /\ plasma_resistivity.given
       /\ ThresholdDen * Abs(plasma_resistivity.value - s.plasma_resistivity)
              > s.plasma_resistivity
    THEN reset_plasma_resistivity(s, plasma_resistivity.value)
    ELSE s

\* set_linear_solution without the static GS solve at the linear guess
set_linear_solution_NoGS(s, lin_currents, psi_new) ==
    LET s1 == assign_currents(
                  [Ran(s, "linear") EXCEPT !.trial_currents = lin_currents],
                  lin_currents, 2)
    IN  [s1 EXCEPT !.trial_plasma_psi = s1.eq2.plasma_psi]

\* set_linear_solution: lin_currents is what linearised_sol.stepper returns
\* from It = currents_vec, psi_new the flux of the GS solve at those currents
set_linear_solution(s, lin_currents, psi_new) ==
    LET s1 == assign_currents_solve_GS(
                  [Ran(s, "linear") EXCEPT !.trial_currents = lin_currents],
                  lin_currents, psi_new)
    IN  [s1 EXCEPT !.trial_plasma_psi = s1.eq2.plasma_psi]

calculate_hatIy(s, trial_currents, plasma_psi) ==
    LET s1 == assign_currents(s, trial_currents, 2)
    IN  [s1 EXCEPT !.tokamak_psi = s1.eq2.tokamak,
                   !.profiles2 = [@ EXCEPT !.jtor =
                                      Jtor(s1.eq2.tokamak, plasma_psi, s1.profiles2)]]

\* F_function_curr, as to the object: the residual it returns is numerical
F_function_curr(s, trial_currents) ==
    calculate_hatIy(Ran(s, "residual"), trial_currents, s.trial_plasma_psi)

\* F_function_psi: Jtor on profiles2 at the trial flux, the simplified
\* circuit solve (currents iter_currents), then a GS solve (flux psi_new)
F_function_psi(s, trial_plasma_psi, iter_currents, psi_new) ==
    assign_currents_solve_GS(
        [Ran(s, "residual") EXCEPT !.profiles2 = [@ EXCEPT !.jtor =
                      Jtor(s.tokamak_psi, trial_plasma_psi, s.profiles2)]],
        iter_currents, psi_new)

\* calculate_rel_tolerance_GS: sets d_plasma_psi_step; a_res_GS is the level
\* of max|NK.F_function(...)|
calculate_rel_tolerance_GS(s, trial_plasma_psi) ==
    [s EXCEPT !.d_plasma_psi_step =
                  FluxStepRange(trial_plasma_psi, s.eq1.plasma_psi)]

\* step_complete_assign without the snapshot of the previous-step currents
step_complete_assign_KeepsM1(s, working_relative_tol_GS, from_linear) ==
    LET d  == FluxStepRange(s.eq2.plasma_psi, s.eq1.plasma_psi)
        s1 == [Ran(s, "commits") EXCEPT !.time = @ + s.dt_step, !.step_no = @ + 1,
                        !.d_plasma_psi_step = d,
                        !.currents_vec = s.trial_currents]
        s2 == assign_currents(s1, s1.currents_vec, 1)
        s3 == IF from_linear
              THEN [s2 EXCEPT !.profiles1 = s2.profiles2, !.eq1 = s2.eq2]
              ELSE LET e1 == [s2.eq1 EXCEPT !.plasma_psi = s2.trial_plasma_psi]
                       p1 == [s2.profiles1 EXCEPT
                                 !.Ip = Last(s2.trial_currents) * PlasmaNormFactor]
                   IN  [s2 EXCEPT !.eq1 = e1, !.tokamak_psi = e1.tokamak,
                           !.profiles1 = [p1 EXCEPT !.jtor =
                               Jtor(e1.tokamak, s2.trial_plasma_psi, p1)]]
    IN  [s3 EXCEPT !.rtol_NK = working_relative_tol_GS * d]

step_complete_assign(s, working_relative_tol_GS, from_linear) ==
    LET d  == FluxStepRange(s.eq2.plasma_psi, s.eq1.plasma_psi)
        s1 == [Ran(s, "commits") EXCEPT !.time = @ + s.dt_step, !.step_no = @ + 1,
                        !.currents_vec_m1 = s.currents_vec,
                        !.d_plasma_psi_step = d,
                        !.currents_vec = s.trial_currents]
        s2 == assign_currents(s1, s1.currents_vec, 1)
        s3 == IF from_linear
              THEN [s2 EXCEPT !.profiles1 = s2.profiles2, !.eq1 = s2.eq2]
              ELSE LET e1 == [s2.eq1 EXCEPT !.plasma_psi = s2.trial_plasma_psi]
                       p1 == [s2.profiles1 EXCEPT
                                 !.Ip = Last(s2.trial_currents) * PlasmaNormFactor]
                   IN  [s2 EXCEPT !.eq1 = e1, !.tokamak_psi = e1.tokamak,
                           !.profiles1 = [p1 EXCEPT !.jtor =
                               Jtor(e1.tokamak, s2.trial_plasma_psi, p1)]]
    IN  [s3 EXCEPT !.rtol_NK = working_relative_tol_GS * d]

\* the arguments of nlstepper that the model distinguishes
ProfileParameterChoices == {[given |-> FALSE, pars |-> 0], [given |-> TRUE, pars |-> 1]}
ResistivityChoices == {[given |-> FALSE, value |-> 0], [given |-> TRUE, value |-> 200]}
AllStepperArgs ==
    [profile_parameters : ProfileParameterChoices,
     plasma_resistivity : ResistivityChoices,
     target_relative_tol_currents : {1}, target_relative_tol_GS : {1},
     working_relative_tol_GS : {1}, max_no_NK_psi : {1}, blend_GS : {1},
     linear_only : BOOLEAN]
\* at most one of the two optional arguments is given in a call
StepperArgs ==
    {a \in AllStepperArgs :
        ~(a.profile_parameters.given /\ a.plasma_resistivity.given)}

NoArgs == [profile_parameters |-> [given |-> FALSE, pars |-> 0],
           plasma_resistivity |-> [given |-> FALSE, value |-> 0],
           target_relative_tol_currents |-> 1, target_relative_tol_GS |-> 1,
           working_relative_tol_GS |-> 1, max_no_NK_psi |-> 1, blend_GS |-> 1,
           linear_only |-> FALSE]

Snapshot(s) == [time |-> s.time, step_no |-> s.step_no,
                currents_vec |-> s.currents_vec,
                eq1 |-> s.eq1, profiles1 |-> s.profiles1,
                plasma_resistivity |-> s.plasma_resistivity]

\* the nl_solver object after __init__ and initialize_from_ICs on a GS
\* solution with one vessel mode
NLInitialized ==
    LET c0 == <<1, 1>>
        e0 == [tokamak |-> IdtoIvessel(Metal(c0)),
               current |-> PlasmaNormFactor * Last(c0), plasma_psi |-> 0]
        p0 == [Ip |-> PlasmaNormFactor * Last(c0), pars |-> 0, jtor |-> <<>>]
        p1 == [p0 EXCEPT !.jtor = Jtor(e0.tokamak, 0, p0)]
        r1 == PlasmaResistance1d(100)
    IN  [time |-> 0, step_no |-> -1, step_counter |-> 0, dt_step |-> 5,
         n_metal_modes |-> 1, extensive_currents_dim |-> 2,
         currents_vec |-> c0, currents_vec_m1 |-> c0,
         vessel_currents_vec |-> IdtoIvessel(Metal(c0)),
         eq1 |-> e0, profiles1 |-> p1, eq2 |-> e0, profiles2 |-> p1,
         trial_currents |-> <<>>, trial_plasma_psi |-> NoValue,
         tokamak_psi |-> <<>>, d_plasma_psi_step |-> NoValue, rtol_NK |-> 1,
         profile_change_flag |-> 0, ops |-> NoOps,
         plasma_resistivity |-> 100, plasma_resistance_1d |-> r1,
         linearised_sol |-> [plasma_resistance_1d |-> r1],
         simplified_solver_J1 |-> [plasma_resistance_1d |-> r1],
         evol_plasma_curr |-> [Ryy |-> r1]]

\* the objects nlstepper can be called on: the initialised one, and those
\* reached from it by up to k committed linear steps
RECURSIVE AfterLinearSteps(_)
AfterLinearSteps(k) ==
    IF k = 0
    THEN {NLInitialized}
    ELSE LET P == AfterLinearSteps(k - 1)
         IN  P \cup {step_complete_assign(set_linear_solution(s, c, psi), 1, TRUE) :
                        s \in P,
                        c \in CurrentVectors(NLInitialized.extensive_currents_dim),
                        psi \in PsiValues}

CallIdle == [pc |-> "idle", args |-> NoArgs, pre |-> Snapshot(NLInitialized),
             linear_guess |-> <<>>, cycle_log |-> <<>>,
             control |-> FALSE, control_GS |-> FALSE,
             rel_curr_res |-> <<>>, r_res_GS |-> NoValue,
             relative_psi_res |-> NoValue, n_it |-> 0]

\* np.any(rel_curr_res > target_relative_tol_currents)
AnyAbove(rel_curr_res, tol) ==
    \E i \in 1 .. Len(rel_curr_res) : Gt(rel_curr_res[i], tol)

\* nlstepper up to set_linear_solution (lines 1509-1524)
nlstepper_prologue(s, a, lin_currents, psi_lin) ==
    set_linear_solution(
        check_and_change_plasma_resistivity(
            check_and_change_profiles([s EXCEPT !.ops = NoOps],
                                      a.profile_parameters),
            a.plasma_resistivity),
        lin_currents, psi_lin)

\* a linear-only call that runs step_complete_assign twice
linear_only_call_CommitsTwice(a, lin_currents, psi_lin) ==
    /\ a.linear_only
    /\ nl' = step_complete_assign(
                 step_complete_assign(
                     nlstepper_prologue(nl, a, lin_currents, psi_lin),
                     a.working_relative_tol_GS, TRUE),
                 a.working_relative_tol_GS, TRUE)
    /\ call' = [CallIdle EXCEPT !.pc = "returned", !.args = a,
                   !.pre = Snapshot(nl), !.linear_guess = lin_currents]

\* nlstepper(..., linear_only=True): the whole call
linear_only_call(a, lin_currents, psi_lin) ==
    /\ a.linear_only
    /\ nl' = step_complete_assign(
                 nlstepper_prologue(nl, a, lin_currents, psi_lin),
                 a.working_relative_tol_GS, TRUE)
    /\ call' = [CallIdle EXCEPT !.pc = "returned", !.args = a,
                   !.pre = Snapshot(nl), !.linear_guess = lin_currents]

nlstepper_linear_only(a, lin_currents, psi_lin) ==
    /\ call.pc = "idle"
    /\ linear_only_call(a, lin_currents, psi_lin)

\* nlstepper(..., linear_only=False) up to the while (lines 1509-1562)
nlstepper_enter(a, lin_currents, psi_lin, rel_curr_res, a_res_GS) ==
    /\ call.pc = "idle"
    /\ ~a.linear_only
    /\ LET s2 == nlstepper_prologue(nl, a, lin_currents, psi_lin)
           s3 == F_function_curr(s2, s2.trial_currents)
           s4 == calculate_rel_tolerance_GS(s3, s3.trial_plasma_psi)
       IN  /\ nl' = s4
           /\ call' = [CallIdle EXCEPT !.pc = "loop", !.args = a,
                  !.pre = Snapshot(nl), !.linear_guess = lin_currents,
                  !.rel_curr_res = rel_curr_res,
                  !.control = AnyAbove(rel_curr_res, a.target_relative_tol_currents),
                  !.r_res_GS = RelDiv(a_res_GS, s4.d_plasma_psi_step),
                  !.control_GS = FALSE,
                  !.n_it = 0]

\* a cycle that blends in the GS solution in the first cycle as well
nlstepper_cycle_psi_BlendsAtOnce(psi_gs, del_res_psi, iter_currents, psi_iter, psi_nk) ==
    /\ call.pc = "loop"
    /\ call.control
    /\ LET a  == call.args
           sA == IF call.control_GS \/ call.n_it = 0
                 THEN LET g == forward_solve(nl, psi_gs)
                      IN  [g EXCEPT !.trial_plasma_psi =
                               nl.trial_plasma_psi * (1 - a.blend_GS)
                                   + a.blend_GS * g.eq2.plasma_psi]
                 ELSE nl
           sB == F_function_psi(sA, sA.trial_plasma_psi, iter_currents, psi_iter)
           relative_psi_res == RelDiv(del_res_psi, sB.d_plasma_psi_step)
           control_NK_psi ==
               Gt(relative_psi_res, a.target_relative_tol_GS * a.max_no_NK_psi)
           sC == IF control_NK_psi
                 THEN [sB EXCEPT !.trial_plasma_psi = psi_nk]
                 ELSE sB
       IN  /\ ~(call.control_GS \/ call.n_it = 0) => psi_gs = nl.eq2.plasma_psi
           /\ ~control_NK_psi => psi_nk = sB.trial_plasma_psi
           /\ nl' = sC
           /\ call' = [call EXCEPT !.pc = "cycle_currents",
                  !.relative_psi_res = relative_psi_res,
                  !.cycle_log =
                      (IF call.control_GS \/ call.n_it = 0
                       THEN <<"GS_blend">> ELSE <<>>)
                      \o <<"psi_residual">>
                      \o (IF control_NK_psi THEN <<"NK_psi">> ELSE <<>>)]

\* first half of one cycle of the while (lines 1564-1614): the GS blend,
\* the psi residual and the NK update of psi.  (iter_currents, psi_iter) are
\* what the last F_function_psi evaluation of the cycle left in eq2.
nlstepper_cycle_psi(psi_gs, del_res_psi, iter_currents, psi_iter, psi_nk) ==
    /\ call.pc = "loop"
    /\ call.control
    /\ LET a  == call.args
           sA == IF call.control_GS
                 THEN LET g == forward_solve(nl, psi_gs)
                      IN  [g EXCEPT !.trial_plasma_psi =
                               nl.trial_plasma_psi * (1 - a.blend_GS)
                                   + a.blend_GS * g.eq2.plasma_psi]
                 ELSE nl
           sB == F_function_psi(sA, sA.trial_plasma_psi, iter_currents, psi_iter)
           relative_psi_res == RelDiv(del_res_psi, sB.d_plasma_psi_step)
           control_NK_psi ==
               Gt(relative_psi_res, a.target_relative_tol_GS * a.max_no_NK_psi)
           sC == IF control_NK_psi
                 THEN [sB EXCEPT !.trial_plasma_psi = psi_nk]
                 ELSE sB
       IN  /\ ~call.control_GS => psi_gs = nl.eq2.plasma_psi
           /\ ~control_NK_psi => psi_nk = sB.trial_plasma_psi
           /\ nl' = sC
           /\ call' = [call EXCEPT !.pc = "cycle_currents",
                  !.relative_psi_res = relative_psi_res,
                  !.cycle_log =
                      (IF call.control_GS THEN <<"GS_blend">> ELSE <<>>)
                      \o <<"psi_residual">>
                      \o (IF control_NK_psi THEN <<"NK_psi">> ELSE <<>>)]

\* second half of the cycle (lines 1616-1670): the NK update of the
\* currents, then the residuals and the controls
nlstepper_cycle_currents(new_currents, rel_curr_res, a_res_GS) ==
    /\ call.pc = "cycle_currents"
    /\ LET a  == call.args
           s1 == F_function_curr([nl EXCEPT !.trial_currents = new_currents],
                                 new_currents)
           s2 == calculate_rel_tolerance_GS(s1, s1.trial_plasma_psi)
           r_res_GS == RelDiv(a_res_GS, s2.d_plasma_psi_step)
           control_GS == Gt(r_res_GS, a.target_relative_tol_GS)
       IN  /\ nl' = s2
           /\ call' = [call EXCEPT !.pc = "loop",
                  !.rel_curr_res = rel_curr_res,
                  !.r_res_GS = r_res_GS,
                  !.control_GS = control_GS,
                  !.control =
                      AnyAbove(rel_curr_res, a.target_relative_tol_currents)
                          \/ control_GS,
                  !.n_it = Sat(@ + 1, MaxCycles),
                  !.relative_psi_res = NoValue,
                  !.cycle_log = @ \o <<"NK_currents", "residuals">>]

\* the while has ended: step_complete_assign, and nlstepper returns
nlstepper_commit ==
    /\ call.pc = "loop"
    /\ ~call.control
    /\ nl' = step_complete_assign(nl, call.args.working_relative_tol_GS, FALSE)
    /\ call' = [call EXCEPT !.pc = "returned"]

StepperStep ==
    \/ \E a \in StepperArgs, c \in CurrentVectors(nl.extensive_currents_dim),
          psi \in PsiValues :
           nlstepper_linear_only(a, c, psi)
    \/ \E a \in StepperArgs, c \in CurrentVectors(nl.extensive_currents_dim),
          psi \in PsiValues,
          rel \in ResidualVectors(nl.extensive_currents_dim),
          a_res \in GSResiduals :
           nlstepper_enter(a, c, psi, rel, a_res)
    \/ \E psi_gs \in PsiValues, del_res_psi \in GSResiduals,
          ic \in CurrentVectors(nl.extensive_currents_dim),
          psi_iter \in PsiValues, psi_nk \in PsiValues :
           nlstepper_cycle_psi(psi_gs, del_res_psi, ic, psi_iter, psi_nk)
    \/ \E c \in CurrentVectors(nl.extensive_currents_dim),
          rel \in ResidualVectors(nl.extensive_currents_dim),
          a_res \in GSResiduals :
           nlstepper_cycle_currents(c, rel, a_res)
    \/ nlstepper_commit

-----------------------------------------------------------------------------
(* nl_solver, the plasma resistivity over a run: linear-only steps and     *)
(* direct check_and_change_plasma_resistivity calls, with requests on both *)
(* sides of the relative threshold.                                        *)

MaxSteps == 2
RequestedResistivities == {99, 100, 101, 102, 200}
ResistivityRequests ==
    {[given |-> FALSE, value |-> 0]}
        \cup {[given |-> TRUE, value |-> v] : v \in RequestedResistivities}

\* one more linear-only step of the run
resistivity_nlstepper(plasma_resistivity, lin_currents, psi_lin) ==
    /\ nl.step_no + 1 < MaxSteps
    /\ linear_only_call([NoArgs EXCEPT !.linear_only = TRUE,
                                       !.plasma_resistivity = plasma_resistivity],
                        lin_currents, psi_lin)

call_check_and_change_plasma_resistivity(plasma_resistivity) ==
    /\ nl' = check_and_change_plasma_resistivity(nl, plasma_resistivity)
    /\ call' = [CallIdle EXCEPT !.pc = "checked",
                   !.args = [NoArgs EXCEPT !.plasma_resistivity = plasma_resistivity],
                   !.pre = Snapshot(nl)]

ResistivityStep ==
    \/ \E r \in ResistivityRequests,
          c \in CurrentVectors(nl.extensive_currents_dim), psi \in PsiValues :
           resistivity_nlstepper(r, c, psi)
    \/ \E r \in ResistivityRequests : call_check_and_change_plasma_resistivity(r)

-----------------------------------------------------------------------------
(* nl_solver, the mode bookkeeping: construction with linearize=True,     *)
(* then remove_modes, reset_timestep, reset_plasma_resistivity and         *)
(* initialize_from_ICs.  dIydI is held as the sequence of the norms   *)
(* of its columns, in tenths.                                              *)

NActive == 1
min_dIy_dI == 1
ColumnNorms == {0, 1, 2}
TimestepChoices == {<<5, 5>>, <<2, 1>>}
ResistivityValues == {100, 200}

Zeros(n) == [i \in 1 .. n |-> 0]
CountTrue(mask) == Cardinality({i \in 1 .. Len(mask) : mask[i]})

\* x[mask] / x[:, mask]
RECURSIVE Compress(_, _)
Compress(x, mask) ==
    IF Len(x) = 0
    THEN <<>>
    ELSE LET rest == Compress(SubSeq(x, 1, Len(x) - 1), SubSeq(mask, 1, Len(x) - 1))
         IN  IF mask[Len(x)] THEN Append(rest, x[Len(x)]) ELSE rest

\* evol_metal_curr.initialize_for_eig(selected_modes_mask): the modes with
\* True in the mask are kept
initialize_for_eig(emc, selected_modes_mask) ==
    [emc EXCEPT !.n_independent_vars = CountTrue(selected_modes_mask)]

\* evol_metal_curr.reset_mode(...) on a change of the timesteps only
reset_mode(emc, full_timestep, max_internal_timestep) ==
    [emc EXCEPT !.full_timestep = full_timestep,
                !.max_internal_timestep = max_internal_timestep]

simplified_solver_J1(plasma_resistance_1d, full_timestep) ==
    [plasma_resistance_1d |-> plasma_resistance_1d,
     full_timestep |-> full_timestep, max_internal_timestep |-> full_timestep]

linear_solver(plasma_resistance_1d, max_internal_timestep, full_timestep) ==
    [plasma_resistance_1d |-> plasma_resistance_1d,
     full_timestep |-> full_timestep,
     max_internal_timestep |-> max_internal_timestep, dIydI |-> <<>>,
     growth_rates |-> <<>>, instability_timescale |-> <<>>]

remove_modes(s, selected_modes_mask) ==
    LET emc == initialize_for_eig(s.evol_metal_curr, selected_modes_mask)
        n   == emc.n_independent_vars
    IN  [s EXCEPT !.evol_metal_curr = emc,
                  !.n_metal_modes = n,
                  !.extensive_currents_dim = n + 1,
                  !.currents_vec = Zeros(n + 1),
                  !.circuit_eq_residual = Zeros(n + 1),
                  !.currents_nk_solver = [dim |-> n + 1],
                  !.simplified_solver_J1 =
                      simplified_solver_J1(s.plasma_resistance_1d, s.dt_step),
                  !.linearised_sol =
                      [linear_solver(s.plasma_resistance_1d,
                                     s.max_internal_timestep, s.dt_step)
                          EXCEPT !.dIydI = s.dIydI]]

\* reset_timestep that leaves the linearised solver on its old timesteps
reset_timestep_SkipsLinearised(s, full_timestep, max_internal_timestep) ==
    [s EXCEPT !.dt_step = full_timestep,
              !.max_internal_timestep = max_internal_timestep,
              !.evol_metal_curr =
                  reset_mode(@, full_timestep, max_internal_timestep),
              !.simplified_solver_J1 =
                  [@ EXCEPT !.full_timestep = full_timestep,
                            !.max_internal_timestep = full_timestep]]

reset_timestep(s, full_timestep, max_internal_timestep) ==
    [s EXCEPT !.dt_step = full_timestep,
              !.max_internal_timestep = max_internal_timestep,
              !.evol_metal_curr =
                  reset_mode(@, full_timestep, max_internal_timestep),
              !.simplified_solver_J1 =
                  [@ EXCEPT !.full_timestep = full_timestep,
                            !.max_internal_timestep = full_timestep],
              !.linearised_sol =
                  [@ EXCEPT !.full_timestep = full_timestep,
                            !.max_internal_timestep = max_internal_timestep]]

\* the dIydI argument: [given |-> FALSE] stands for None
NoJacobian == [given |-> FALSE, value |-> <<>>]

\* build_linearization, as to dIydI: column_norms are the column norms of
\* the Jacobian that finite differences around the given equilibrium yield;
\* an attribute that is None is held as <<>>
build_linearization(s, dIydI, column_norms) ==
    IF ~dIydI.given
    THEN IF s.dIydI_ICs = <<>>
         THEN [s EXCEPT !.dIydI = column_norms, !.dIydI_ICs = column_norms]
         ELSE [s EXCEPT !.dIydI = s.dIydI_ICs]
    ELSE [s EXCEPT !.dIydI = dIydI.value, !.dIydI_ICs = dIydI.value]

\* initialize_from_ICs, as to the mode bookkeeping: build_current_vec fills
\* currents_vec from the equilibrium (every current at level 1) and copies
\* it to currents_vec_m1; then build_linearization and
\* linearised_sol.set_linearization_point(dIydI_ICs)
initialize_from_ICs(s, dIydI, column_norms) ==
    LET c  == [i \in 1 .. s.n_metal_modes + 1 |-> 1]
        s1 == [s EXCEPT !.currents_vec = c, !.currents_vec_m1 = c,
                        !.time = 0, !.step_no = -1, !.step_counter = 0]
        s2 == build_linearization(s1, dIydI, column_norms)
    IN  [s2 EXCEPT !.linearised_sol = [@ EXCEPT !.dIydI = s2.dIydI_ICs]]

\* the automatic_timestep argument: [given |-> FALSE] stands for False
NoAutomaticTimestep == [given |-> FALSE, value |-> <<>>]

\* linearised_sol.calculate_linear_growth_rate(): instability_timescale is
\* the sequence of the timescales of the unstable modes of the linearised
\* system, growth_rates that of their rates, one per timescale
calculate_linear_growth_rate(solver, instability_timescale) ==
    [solver EXCEPT !.growth_rates = instability_timescale,
                   !.instability_timescale = instability_timescale]

\* nl_solver.__init__ from the growth rate check on: the timestep is reset
\* when automatic_timestep is given and an unstable mode was found.  The
\* division is exact on the values drawn.
automatic_timestep_reset(s, automatic_timestep, instability_timescale) ==
    LET s1 == [s EXCEPT !.linearised_sol =
                  calculate_linear_growth_rate(@, instability_timescale)]
        dt_step == Abs(s1.linearised_sol.instability_timescale[1]
                           * automatic_timestep.value[1])
    IN  IF automatic_timestep.given /\ Len(s1.linearised_sol.growth_rates) # 0
        THEN reset_timestep(s1, dt_step, dt_step \div automatic_timestep.value[2])
        ELSE s1

\* nl_solver.__init__ with linearize=True, up to the growth rate check, on a
\* machine whose metal_currents object keeps n_modes modes (the active coils
\* and the vessel modes below max_mode_frequency)
nl_solver_modes(n_modes, column_norms, mode_removal, full_timestep, max_internal_timestep) ==
    LET r1d == PlasmaResistance1d(100)
        s0  == [n_coils |-> NCoils, n_active_coils |-> NActive,
                dt_step |-> full_timestep,
                max_internal_timestep |-> max_internal_timestep,
                plasma_resistivity |-> 100, plasma_resistance_1d |-> r1d,
                evol_metal_curr |-> [n_independent_vars |-> n_modes,
                                     full_timestep |-> full_timestep,
                                     max_internal_timestep |->
                                         max_internal_timestep],
                n_metal_modes |-> n_modes,
                evol_plasma_curr |-> [Ryy |-> r1d],
                simplified_solver_J1 |->
                    simplified_solver_J1(r1d, full_timestep),
                extensive_currents_dim |-> n_modes + 1,
                currents_vec |-> Zeros(n_modes + 1),
                currents_vec_m1 |-> <<>>,
                circuit_eq_residual |-> Zeros(n_modes + 1),
                linearised_sol |->
                    linear_solver(r1d, max_internal_timestep, full_timestep),
                currents_nk_solver |-> [dim |-> n_modes + 1],
                time |-> 0, step_no |-> 0, step_counter |-> 0,
                dIydI_ICs |-> <<>>, dIydI |-> <<>>,
                selected_modes_mask |-> <<>>]
        s1  == initialize_from_ICs(s0, NoJacobian, column_norms)
        m1  == [j \in 1 .. n_modes + 1 |->
                   \/ j <= NActive
                   \/ j = n_modes + 1
                   \/ s1.dIydI[j] > min_dIy_dI]
        d   == Compress(s1.dIydI, m1)
        m2  == [j \in 1 .. NCoils |-> IF j <= n_modes THEN m1[j] ELSE FALSE]
    IN  IF mode_removal
        THEN remove_modes([s1 EXCEPT !.dIydI = d, !.dIydI_ICs = d,
                                     !.selected_modes_mask = m2], m2)
        ELSE s1

\* nl_solver.__init__ with automatic_timestep=False and the default
\* timesteps, on an equilibrium without unstable modes
nl_solver(n_modes, column_norms, mode_removal) ==
    automatic_timestep_reset(
        nl_solver_modes(n_modes, column_norms, mode_removal, 5, 5),
        NoAutomaticTimestep, <<>>)

\* nl_solver.__init__ with full_timestep, max_internal_timestep and
\* automatic_timestep as given; instability_timescale is what the growth
\* rate calculation finds for the equilibrium
nl_solver_timesteps(n_modes, column_norms, mode_removal, full_timestep, max_internal_timestep, automatic_timestep, instability_timescale) ==
    automatic_timestep_reset(
        nl_solver_modes(n_modes, column_norms, mode_removal,
                        full_timestep, max_internal_timestep),
        automatic_timestep, instability_timescale)

\* the constructor call that built the object, and the last call made on it
Constructor(n_modes, column_norms, mode_removal) ==
    [pc |-> "constructed",
     ctor |-> [n_modes |-> n_modes, column_norms |-> column_norms,
               mode_removal |-> mode_removal],
     args |-> <<>>]

Constructed ==
    UNION {{nl_solver(n, norms, mr) :
               norms \in [1 .. n + 1 -> ColumnNorms], mr \in BOOLEAN} :
           n \in NActive .. NCoils}

call_remove_modes(selected_modes_mask) ==
    /\ \A j \in 1 .. NCoils :
           /\ j <= NActive => selected_modes_mask[j]
           /\ j > nl.n_metal_modes => ~selected_modes_mask[j]
    /\ nl' = remove_modes(nl, selected_modes_mask)
    /\ call' = [call EXCEPT !.pc = "remove_modes", !.args = <<>>]

call_reset_timestep(full_timestep, max_internal_timestep) ==
    /\ nl' = reset_timestep(nl, full_timestep, max_internal_timestep)
    /\ call' = [call EXCEPT !.pc = "reset_timestep", !.args = <<>>]

call_reset_plasma_resistivity(plasma_resistivity) ==
    /\ nl' = reset_plasma_resistivity(nl, plasma_resistivity)
    /\ call' = [call EXCEPT !.pc = "reset_plasma_resistivity", !.args = <<>>]

\* initialize_from_ICs(eq, profile, dIydI=dIydI) on an equilibrium around
\* which the Jacobian has the column norms column_norms
call_initialize_from_ICs(dIydI, column_norms) ==
    /\ nl' = initialize_from_ICs(nl, dIydI, column_norms)
    /\ call' = [call EXCEPT !.pc = "initialize_from_ICs",
                            !.args = [dIydI |-> dIydI,
                                      column_norms |-> column_norms]]

\* Jacobians whose columns all have one norm
UniformNorms(n) == {[j \in 1 .. n |-> v] : v \in ColumnNorms}

ModesStep ==
    \/ \E mask \in [1 .. NCoils -> BOOLEAN] : call_remove_modes(mask)
    \/ \E t \in TimestepChoices : call_reset_timestep(t[1], t[2])
    \/ \E rho \in ResistivityValues : call_reset_plasma_resistivity(rho)
    \/ \E norms \in UniformNorms(nl.n_metal_modes + 1) :
           \/ call_initialize_from_ICs(NoJacobian, norms)
           \/ call_initialize_from_ICs([given |-> TRUE, value |-> norms], norms)

-----------------------------------------------------------------------------
(* nl_solver, the timesteps: construction with full_timestep,              *)
(* max_internal_timestep and automatic_timestep, on equilibria with and    *)
(* without an unstable mode, then reset_timestep.                          *)

AutomaticTimesteps ==
    {NoAutomaticTimestep}
        \cup {[given |-> TRUE, value |-> <<a, b>>] : a \in {1, 2}, b \in {1, 2}}
InstabilityTimescales == {<<>>, <<4>>, <<6>>}

TimestepConstructor(ctor) ==
    [pc |-> "constructed", ctor |-> ctor, args |-> <<>>]

TimestepStep == \E t \in TimestepChoices : call_reset_timestep(t[1], t[2])

-----------------------------------------------------------------------------
(* nl_solver, the objects it holds and writes.  Objects live in a store;   *)
(* an attribute or argument that is an object holds the place of that      *)
(* object in the store.  "eq" and "profile" are the caller's objects, the   *)
(* other places are those of the copies the solver makes.  An equilibrium   *)
(* is its plasma current, the level of its coil currents and its plasma     *)
(* flux; a profile is its Ip, one parameter and its jtor.                   *)

PlasmaCurrents == {1000, 2000}
CoilLevels == {1, 2}
ParameterValues == {0, 1}

CallerObjects ==
    {[eq |-> [current |-> ip, tokamak |-> c, plasma_psi |-> psi],
      profile |-> [Ip |-> ip, par |-> par, jtor |-> psi]] :
        ip \in PlasmaCurrents, c \in CoilLevels,
        psi \in PsiValues, par \in ParameterValues}

\* currents_vec: the metal currents and Ip / plasma_norm_factor
ObjectCurrents ==
    {<<c, ip \div PlasmaNormFactor>> : c \in CoilLevels, ip \in PlasmaCurrents}

\* copy.deepcopy(store[place]) assigned to the attribute attr
deepcopy(s, attr, place) ==
    [s EXCEPT ![attr] = attr, !.store = [@ EXCEPT ![attr] = s.store[place]]]

\* self.eq1 = eq; self.profiles1 = profile
internal_copies_Bound(s, eq, profile) ==
    [s EXCEPT !.eq1 = eq, !.profiles1 = profile]

\* self.eq1 = deepcopy(eq); self.profiles1 = deepcopy(profile)
internal_copies(s, eq, profile) ==
    deepcopy(deepcopy(s, "eq1", eq), "profiles1", profile)

\* build_current_vec(eq, profile)
build_current_vec_objects(s, eq, profile) ==
    [s EXCEPT !.currents_vec =
        <<s.store[eq].tokamak, s.store[profile].Ip \div PlasmaNormFactor>>]

\* assign_currents(currents_vec, eq, profile)
assign_currents_objects(s, currents_vec, eq, profile) ==
    [s EXCEPT !.store =
        [@ EXCEPT ![eq] = [@ EXCEPT
                      !.current = PlasmaNormFactor * currents_vec[2],
                      !.tokamak = currents_vec[1]],
                  ![profile] = [@ EXCEPT
                      !.Ip = PlasmaNormFactor * currents_vec[2]]]]

\* NK.forward_solve(eq, profile): the flux psi is written to eq and the
\* current density that goes with it to profile
forward_solve_objects(s, eq, profile, psi) ==
    [s EXCEPT !.store = [@ EXCEPT ![eq] = [@ EXCEPT !.plasma_psi = psi],
                                  ![profile] = [@ EXCEPT !.jtor = psi]]]

assign_currents_solve_GS_objects(s, currents_vec, psi) ==
    forward_solve_objects(
        assign_currents_objects(s, currents_vec, s.eq2, s.profiles2),
        s.eq2, s.profiles2, psi)

\* build_linearization(self.eq1, self.profiles1, dIydI): when the Jacobian
\* is computed, the finite differences solve GS on eq2 at shifted currents
build_linearization_objects(s, computed, shifted, psi) ==
    IF computed THEN assign_currents_solve_GS_objects(s, shifted, psi) ELSE s

\* initialize_from_ICs(eq, profile): psi is the flux of the GS solution for
\* the copied equilibrium
initialize_from_ICs_objects(s, eq, profile, psi, computed, shifted, psi_shifted) ==
    LET s1 == internal_copies(s, eq, profile)
        s2 == build_current_vec_objects(s1, s1.eq1, s1.profiles1)
        s3 == assign_currents_objects(s2, s2.currents_vec, s2.eq1, s2.profiles1)
        s4 == forward_solve_objects(s3, s3.eq1, s3.profiles1, psi)
        s5 == deepcopy(deepcopy(s4, "eq2", s4.eq1), "profiles2", s4.profiles1)
    IN  build_linearization_objects(s5, computed, shifted, psi_shifted)

\* check_and_change_profiles(profile_parameters)
check_and_change_profiles_objects(s, profile_parameters) ==
    IF profile_parameters.given
    THEN [s EXCEPT !.store =
            [@ EXCEPT ![s.profiles1] = [@ EXCEPT !.par = profile_parameters.value],
                      ![s.profiles2] = [@ EXCEPT !.par = profile_parameters.value]]]
    ELSE s

\* step_complete_assign(working_relative_tol_GS, from_linear)
step_complete_assign_objects(s, trial_currents, trial_plasma_psi, from_linear) ==
    LET s1 == assign_currents_objects(
                  [s EXCEPT !.currents_vec = trial_currents],
                  trial_currents, s.eq1, s.profiles1)
    IN  IF from_linear
        THEN deepcopy(deepcopy(s1, "profiles1", s1.profiles2), "eq1", s1.eq2)
        ELSE [s1 EXCEPT !.store =
                [@ EXCEPT ![s1.eq1] = [@ EXCEPT !.plasma_psi = trial_plasma_psi],
                          ![s1.profiles1] = [@ EXCEPT
                              !.Ip = trial_currents[2] * PlasmaNormFactor,
                              !.jtor = trial_plasma_psi]]]

\* nlstepper: the linear guess lin_currents with its GS flux psi_lin; in
\* the non-linear case the last cycle solved GS on eq2 at currents
\* trial_currents and ended on the flux trial_plasma_psi
nlstepper_objects(s, profile_parameters, linear_only, lin_currents, psi_lin, trial_currents, trial_plasma_psi) ==
    LET s1 == check_and_change_profiles_objects(s, profile_parameters)
        s2 == assign_currents_solve_GS_objects(s1, lin_currents, psi_lin)
    IN  IF linear_only
        THEN step_complete_assign_objects(s2, lin_currents, psi_lin, TRUE)
        ELSE step_complete_assign_objects(
                 assign_currents_solve_GS_objects(s2, trial_currents,
                                                  trial_plasma_psi),
                 trial_currents, trial_plasma_psi, FALSE)

\* the solver as constructed from the caller's objects, linearize=True
nl_solver_objects(given, psi, shifted, psi_shifted) ==
    initialize_from_ICs_objects(
        [store |-> [place \in {"eq", "profile", "eq1", "profiles1",
                               "eq2", "profiles2"} |->
                       IF place \in {"eq", "eq1", "eq2"}
                       THEN given.eq ELSE given.profile],
         eq1 |-> "eq1", profiles1 |-> "profiles1",
         eq2 |-> "eq2", profiles2 |-> "profiles2",
         currents_vec |-> <<0, 0>>],
        "eq", "profile", psi, TRUE, shifted, psi_shifted)

ProfileParameterRequests ==
    {[given |-> FALSE, value |-> 0]}
        \cup {[given |-> TRUE, value |-> v] : v \in ParameterValues}

call_initialize_from_ICs_objects(psi, computed, shifted, psi_shifted) ==
    /\ nl' = initialize_from_ICs_objects(nl, "eq", "profile", psi,
                                         computed, shifted, psi_shifted)
    /\ call' = [call EXCEPT !.pc = "initialize_from_ICs"]

call_nlstepper_objects(profile_parameters, linear_only, lin_currents, psi_lin, trial_currents, trial_plasma_psi) ==
    /\ nl' = nlstepper_objects(nl, profile_parameters, linear_only,
                               lin_currents, psi_lin,
                               trial_currents, trial_plasma_psi)
    /\ call' = [call EXCEPT !.pc = "returned"]

ObjectsStep ==
    \/ \E psi, psi_shifted \in PsiValues, computed \in BOOLEAN,
          shifted \in ObjectCurrents :
           call_initialize_from_ICs_objects(psi, computed, shifted, psi_shifted)
    \/ \E pp \in ProfileParameterRequests, c \in ObjectCurrents,
          psi \in PsiValues :
           call_nlstepper_objects(pp, TRUE, c, psi, c, psi)
    \/ \E pp \in ProfileParameterRequests, c, tc \in ObjectCurrents,
          psi, tpsi \in PsiValues :
           call_nlstepper_objects(pp, FALSE, c, psi, tc, tpsi)

-----------------------------------------------------------------------------
(* Equilibrium: initialisation from a stored equilibrium and               *)
(* adjust_psi_plasma.  A coil name is the sequence of its characters; a    *)
(* dictionary is the sequence of its keys, in the order of insertion, with *)
(* the function from keys to values.  The grid is one row of nx points and *)
(* a flux is the sequence of its values there, as fractions.               *)

P1 == <<"P", "1">>
P2 == <<"P", "2">>
passive_0 == <<"p", "a", "s", "s", "i", "v", "e", "_", "0">>
passive_1 == <<"p", "a", "s", "s", "i", "v", "e", "_", "1">>
CoilNames == {P1, P2, passive_0, passive_1}

Range(f) == {f[i] : i \in DOMAIN f}

\* the key orders a dictionary over a subset of the names can have
KeyOrders ==
    UNION {{k \in [1 .. n -> CoilNames] : \A i, j \in 1 .. n : k[i] = k[j] => i = j} :
           n \in 1 .. Cardinality(CoilNames)}

\* tokamak.getCurrents() of the machines built
MachineKeyOrders == {<<P1, P2, passive_0>>, <<P1, passive_0, P2>>,
                     <<passive_0, P2, P1>>}

\* the current stored for a coil in the file
CurrentOnFile(coil) ==
    CASE coil = P1 -> 3 [] coil = P2 -> 4 [] coil = passive_0 -> 5 [] OTHER -> 6

GridSizes == {2, 3}
FluxesOnFile == {<<FInt(1), FInt(4)>>, <<FInt(1), FInt(4), FInt(2)>>}

EquilibriumFiles ==
    {[coil_currents |-> [keys |-> k,
                         values |-> [c \in Range(k) |-> CurrentOnFile(c)]],
      plasma_psi |-> psi] : k \in KeyOrders, psi \in FluxesOnFile}

NoFile == [coil_currents |-> [keys |-> <<>>, values |-> <<>>], plasma_psi |-> <<>>]

\* coil[:7] != "passive"
IsActive(coil) ==
    SubSeq(coil, 1, IF Len(coil) < 7 THEN Len(coil) ELSE 7)
        # <<"p", "a", "s", "s", "i", "v", "e">>

\* interpolate.RectBivariateSpline on np.linspace(Rmin, Rmax, nx_file)
\* evaluated on the grid of nx points over the same interval: the value at
\* a point of both grids is the stored one, between two stored points the
\* value on the segment that joins them
Interpolate(plasma_psi, nx) ==
    LET nx_file == Len(plasma_psi)
    IN  [i \in 1 .. nx |->
            LET k == ((i - 1) * (nx_file - 1)) \div (nx - 1)
                r == ((i - 1) * (nx_file - 1)) % (nx - 1)
            IN  IF r = 0
                THEN plasma_psi[k + 1]
                ELSE FAdd(plasma_psi[k + 1],
                          FMul(Frac(r, nx - 1),
                               FAdd(plasma_psi[k + 2],
                                    FMul(FInt(-1), plasma_psi[k + 1]))))]

Times(x, plasma_psi) ==
    [i \in DOMAIN plasma_psi |-> FMul(x, plasma_psi[i])]

\* initialize_plasma_psi that assigns the flux as stored
initialize_plasma_psi_AsStored(e, plasma_psi) ==
    [e EXCEPT !.plasma_psi =
        IF e.nx # Len(plasma_psi) THEN Interpolate(plasma_psi, e.nx)
        ELSE plasma_psi]

initialize_plasma_psi(e, plasma_psi) ==
    LET on_grid == IF e.nx # Len(plasma_psi)
                   THEN Interpolate(plasma_psi, e.nx)
                   ELSE plasma_psi
    IN  [e EXCEPT !.plasma_psi = Times(FInt(2), on_grid)]

\* initialize_from_equilibrium on the unpickled equilibrium_data; used
\* records which of the two messages was printed
initialize_from_equilibrium(e, equilibrium_data) ==
    LET coil_currents == equilibrium_data.coil_currents
        coils_on_file == coil_currents.keys
        active_coils_on_file == SelectSeq(coils_on_file, IsActive)
        coils_in_tokamak == e.tokamak.keys
        active_coils_in_tokamak == SelectSeq(coils_in_tokamak, IsActive)
    IN  IF active_coils_on_file = active_coils_in_tokamak
        THEN [initialize_plasma_psi(
                  [e EXCEPT !.tokamak.current =
                      [coil \in DOMAIN @ |->
                          IF coil \in Range(active_coils_in_tokamak)
                          THEN coil_currents.values[coil]
                          ELSE @[coil]]],
                  equilibrium_data.plasma_psi)
                EXCEPT !.used = TRUE]
        ELSE [e EXCEPT !.used = FALSE]

\* the caps of the scale-up loop of adjust_psi_plasma, and its two factors
MaxScaleUp == 10
ScaleUp == <<3, 2>>

\* what critical.find_critical does on the fluxes adjust_psi_plasma tries:
\* it raises on the first n_fail fluxes of the scale-up, then finds an
\* O-point, with an X-point or not; on the scaled-down fluxes it finds an
\* X-point at the attempt down.at, raises there, or does neither
CriticalPoints ==
    {[n_fail |-> n, xpt |-> x, down |-> d] :
        n \in 0 .. MaxScaleUp, x \in BOOLEAN,
        d \in {[kind |-> k, at |-> a] :
                  k \in {"xpoint", "raises", "none"}, a \in {1, 2}}}

RECURSIVE Power(_, _)
Power(x, n) == IF n = 0 THEN FInt(1) ELSE FMul(x, Power(x, n - 1))

NotAdjusted == [n_up |-> 0, n_down |-> 0, opoint_flag |-> FALSE,
                xpoint_flag |-> FALSE, raised |-> FALSE]

\* adjust_psi_plasma.  n_down_max = floor(n_up + log(1.5) - log(1.1)) is
\* n_up.  After the scale-down, line 96 reads the local n_exp, which is
\* assigned only inside the branch that line guards: when xpoint_flag is
\* False the read raises UnboundLocalError, when it is True the branch and
\* with it the assignment of the scaled-down flux are skipped.
adjust_psi_plasma(e, critical) ==
    LET n_up == IF critical.n_fail < MaxScaleUp THEN critical.n_fail
                ELSE MaxScaleUp
        opoint_flag == critical.n_fail < MaxScaleUp
        scaled == [e EXCEPT !.plasma_psi = Times(Power(ScaleUp, n_up), @)]
        n_down_max == n_up
        stops == critical.down.kind # "none" /\ critical.down.at <= n_down_max
        n_down == IF stops THEN critical.down.at ELSE n_down_max
        xpoint_flag == stops /\ critical.down.kind = "xpoint"
    IN  IF ~opoint_flag
        THEN [scaled EXCEPT !.adjust = [NotAdjusted EXCEPT !.n_up = n_up]]
        ELSE IF critical.xpt
        THEN [scaled EXCEPT !.adjust =
                 [NotAdjusted EXCEPT !.n_up = n_up, !.opoint_flag = TRUE,
                                     !.xpoint_flag = TRUE]]
        ELSE [scaled EXCEPT !.adjust =
                 [n_up |-> n_up, n_down |-> n_down, opoint_flag |-> TRUE,
                  xpoint_flag |-> xpoint_flag, raised |-> ~xpoint_flag]]

\* freegsfast.equilibrium.Equilibrium.__init__: every coil current zero and
\* the default flux on the grid
EquilibriumBuilt(keys, nx) ==
    [tokamak |-> [keys |-> keys, current |-> [c \in Range(keys) |-> 0]],
     nx |-> nx, plasma_psi |-> [i \in 1 .. nx |-> FInt(1)],
     used |-> FALSE, adjust |-> NotAdjusted,
     pc |-> "built", equilibrium_data |-> NoFile,
     pre |-> [current |-> [c \in Range(keys) |-> 0],
              plasma_psi |-> [i \in 1 .. nx |-> FInt(1)]]]

Before(e) == [current |-> e.tokamak.current, plasma_psi |-> e.plasma_psi]

\* Equilibrium.__init__ with EQUILIBRIUM_PATH set: reinitialize_from_file
call_initialize_from_equilibrium(equilibrium_data) ==
    /\ eqm.pc = "built"
    /\ eqm' = [initialize_from_equilibrium(eqm, equilibrium_data)
                  EXCEPT !.pc = "initialized",
                         !.equilibrium_data = equilibrium_data,
                         !.pre = Before(eqm)]

call_adjust_psi_plasma(critical) ==
    /\ eqm.pc \in {"built", "initialized"}
    /\ eqm' = [adjust_psi_plasma(eqm, critical)
                  EXCEPT !.pc = "adjusted", !.pre = Before(eqm)]

EquilibriumStep ==
    \/ \E equilibrium_data \in EquilibriumFiles :
           call_initialize_from_equilibrium(equilibrium_data)
    \/ \E critical \in CriticalPoints : call_adjust_psi_plasma(critical)

-----------------------------------------------------------------------------
(* ConstrainBetapIp and ConstrainPaxisIp.  The attributes a profile object *)
(* has are the names in has; val holds their values.  jtor is held as the  *)
(* arguments it was computed from, a critical point as <<R, Z, psi>>.      *)

ProfileClasses == {"ConstrainBetapIp", "ConstrainPaxisIp"}
BoundaryValues == {NoValue, 5, 7}
OPoints == {<< <<1, 0, 9>> >>}
XPoints == {<<>>, << <<1, 2, 3>> >>, << <<1, 2, 6>>, <<1, -2, 3>> >>}
LayerMax == 4

NoAttributes ==
    [jtor |-> [psi |-> 0, psi_bndry |-> NoValue], opt |-> <<>>, xpt |-> <<>>,
     diverted_core_mask |-> FALSE, limiter_core_mask |-> FALSE,
     psi_bndry |-> NoValue, limiter_flag |-> FALSE, flag_limiter |-> FALSE]

\* self.<name> = value
SetAttr(p, name, value) ==
    [p EXCEPT !.has = @ \cup {name}, !.val = [@ EXCEPT ![name] = value]]

\* __init__ of either class: Jtor is bound to Jtor_fast when the parent
\* class carries the attribute fast, to _Jtor otherwise
ProfileBuilt(class, fast) ==
    [class |-> class,
     Jtor |-> IF ~fast THEN "_Jtor" ELSE "Jtor_fast",
     has |-> {}, val |-> NoAttributes,
     pc |-> "constructed",
     last |-> [xpt |-> <<>>, core_mask_limiter |-> FALSE, flag |-> FALSE]]

\* limiter_handler.core_mask_limiter(psi, psi_bndry, diverted_core_mask,
\* limiter_mask_out): a diverted configuration keeps the candidate and the
\* diverted core, a limited one gets the largest flux on the limiter layer
core_mask_limiter(psi_bndry, limited) ==
    IF limited
    THEN [psi_bndry |-> LayerMax, mask |-> TRUE, flag |-> TRUE]
    ELSE [psi_bndry |-> psi_bndry, mask |-> TRUE, flag |-> FALSE]

\* the parent's Jtor(R, Z, psi, psi_bndry)
ParentJtor(psi, psi_bndry) == [psi |-> psi, psi_bndry |-> psi_bndry]

\* the parent's Jtor_part1(R, Z, psi, psi_bndry): the critical points are
\* detected and kept on the profile, the boundary flux is the argument or
\* else that of the first X-point; without either there is no core mask
Jtor_part1(p, psi, psi_bndry, opt, xpt) ==
    LET p1 == SetAttr(SetAttr(p, "opt", opt), "xpt", xpt)
    IN  IF psi_bndry # NoValue
        THEN [p |-> SetAttr(p1, "psi_bndry", psi_bndry), mask |-> TRUE]
        ELSE IF Len(xpt) # 0
        THEN [p |-> SetAttr(p1, "psi_bndry", xpt[1][3]), mask |-> TRUE]
        ELSE [p |-> p1, mask |-> FALSE]

Called(p, pc, xpt, used, flag) ==
    [p EXCEPT !.pc = pc,
              !.last = [xpt |-> xpt, core_mask_limiter |-> used, flag |-> flag]]

\* _Jtor that does not keep the critical points on the profile
Jtor_freegs_NoCritical(p, psi, psi_bndry, opt, xpt, limited) ==
    LET p1 == SetAttr(p, "jtor", ParentJtor(psi, psi_bndry))
        p2 == SetAttr(p1, "diverted_core_mask", TRUE)
    IN  IF Len(xpt) = 0
        THEN Called(p2, "raised", xpt, FALSE, FALSE)
        ELSE LET r  == core_mask_limiter(xpt[1][3], limited)
                 p3 == SetAttr(SetAttr(p2, "psi_bndry", r.psi_bndry),
                               "limiter_flag", r.flag)
                 p4 == SetAttr(p3, "jtor", ParentJtor(psi, p3.val.psi_bndry))
             IN  Called(p4, "returned", xpt, TRUE, r.flag)

\* _Jtor of either class, the replacement of the FreeGS Jtor;
\* self.xpt[0][2] raises IndexError when find_critical has found no X-point
Jtor_freegs(p, psi, psi_bndry, opt, xpt, limited) ==
    LET p1 == SetAttr(p, "jtor", ParentJtor(psi, psi_bndry))
        p2 == SetAttr(SetAttr(p1, "opt", opt), "xpt", xpt)
        p3 == SetAttr(p2, "diverted_core_mask", TRUE)
    IN  IF Len(p3.val.xpt) = 0
        THEN Called(p3, "raised", xpt, FALSE, FALSE)
        ELSE LET r  == core_mask_limiter(p3.val.xpt[1][3], limited)
                 p4 == SetAttr(SetAttr(p3, "psi_bndry", r.psi_bndry),
                               "limiter_flag", r.flag)
                 p5 == SetAttr(p4, "jtor", ParentJtor(psi, p4.val.psi_bndry))
             IN  Called(p5, "returned", xpt, TRUE, r.flag)

\* Jtor_fast of either class
Jtor_fast(p, psi, psi_bndry, opt, xpt, limited) ==
    LET part1 == Jtor_part1(p, psi, psi_bndry, opt, xpt)
        p1 == SetAttr(part1.p, "diverted_core_mask", part1.mask)
        r  == core_mask_limiter(p1.val.psi_bndry, limited)
        p2 == IF ~p1.val.diverted_core_mask
              THEN SetAttr(SetAttr(SetAttr(p1, "psi_bndry", psi_bndry),
                                   "limiter_core_mask", FALSE),
                           "flag_limiter", FALSE)
              ELSE SetAttr(SetAttr(SetAttr(p1, "psi_bndry", r.psi_bndry),
                                   "limiter_core_mask", r.mask),
                           "flag_limiter", r.flag)
        p3 == SetAttr(p2, "jtor", ParentJtor(psi, p2.val.psi_bndry))
    IN  Called(p3, "returned", xpt, part1.mask, part1.mask /\ r.flag)

\* profiles.Jtor(R, Z, psi, psi_bndry) on a profile bound to _Jtor
call_Jtor(psi, psi_bndry, opt, xpt, limited) ==
    /\ prof.Jtor = "_Jtor"
    /\ prof' = Jtor_freegs(prof, psi, psi_bndry, opt, xpt, limited)

\* profiles.Jtor(R, Z, psi, psi_bndry) on a profile bound to Jtor_fast
call_Jtor_fast(psi, psi_bndry, opt, xpt, limited) ==
    /\ prof.Jtor = "Jtor_fast"
    /\ prof' = Jtor_fast(prof, psi, psi_bndry, opt, xpt, limited)

JtorStep ==
    \E psi \in PsiValues, psi_bndry \in BoundaryValues, opt \in OPoints,
       xpt \in XPoints, limited \in BOOLEAN :
        \/ call_Jtor(psi, psi_bndry, opt, xpt, limited)
        \/ call_Jtor_fast(psi, psi_bndry, opt, xpt, limited)

UpdatesFixed ==
    /\ eqm = EquilibriumBuilt(<<P1, P2, passive_0>>, 2)
    /\ prof = ProfileBuilt("ConstrainPaxisIp", FALSE)

-----------------------------------------------------------------------------
(* Specifications, one per component; the other components stay as built.  *)

NLFixed == nl = NLInitialized /\ call = CallIdle
NLStarts ==
    /\ nl \in AfterLinearSteps(PriorSteps)
    /\ call = [CallIdle EXCEPT !.pre = Snapshot(nl)]

InitEuler == EulerBuilt /\ nks = NKIdle /\ UpdatesFixed /\ NLFixed
NextEuler == EulerStep /\ UNCHANGED <<nkVars, nlVars, updVars>>
SpecEuler == InitEuler /\ [][NextEuler]_vars

InitNK == EulerFixed /\ nks = NKIdle /\ UpdatesFixed /\ NLFixed
NextNK == NKStep /\ UNCHANGED <<eulerVars, nlVars, updVars>>
SpecNK == InitNK /\ [][NextNK]_vars

InitStepper == EulerFixed /\ nks = NKIdle /\ UpdatesFixed /\ NLStarts
NextStepper == StepperStep /\ UNCHANGED <<eulerVars, nkVars, updVars>>
SpecStepper == InitStepper /\ [][NextStepper]_vars

InitModes ==
    /\ EulerFixed /\ nks = NKIdle /\ UpdatesFixed
    /\ \E n \in NActive .. NCoils :
           \E norms \in [1 .. n + 1 -> ColumnNorms], mr \in BOOLEAN :
               /\ nl = nl_solver(n, norms, mr)
               /\ call = Constructor(n, norms, mr)
NextModes == ModesStep /\ UNCHANGED <<eulerVars, nkVars, updVars>>
SpecModes == InitModes /\ [][NextModes]_vars

InitTimestep ==
    /\ EulerFixed /\ nks = NKIdle /\ UpdatesFixed
    /\ \E n \in NActive .. NCoils :
           \E norms \in UniformNorms(n + 1), mr \in BOOLEAN,
              t \in TimestepChoices, auto \in AutomaticTimesteps,
              tau \in InstabilityTimescales :
               /\ nl = nl_solver_timesteps(n, norms, mr, t[1], t[2], auto, tau)
               /\ call = TimestepConstructor(
                             [n_modes |-> n, column_norms |-> norms,
                              mode_removal |-> mr,
                              full_timestep |-> t[1],
                              max_internal_timestep |-> t[2],
                              automatic_timestep |-> auto,
                              instability_timescale |-> tau])
NextTimestep == TimestepStep /\ UNCHANGED <<eulerVars, nkVars, updVars>>
SpecTimestep == InitTimestep /\ [][NextTimestep]_vars

\* call.given keeps what the caller's objects were when they were passed in
InitObjects ==
    /\ EulerFixed /\ nks = NKIdle /\ UpdatesFixed
    /\ \E given \in CallerObjects, psi, psi_shifted \in PsiValues,
          shifted \in ObjectCurrents :
           /\ nl = nl_solver_objects(given, psi, shifted, psi_shifted)
           /\ call = [pc |-> "constructed", given |-> given]
NextObjects == ObjectsStep /\ UNCHANGED <<eulerVars, nkVars, updVars>>
SpecObjects == InitObjects /\ [][NextObjects]_vars

InitEquilibrium ==
    /\ EulerFixed /\ nks = NKIdle /\ NLFixed
    /\ \E keys \in MachineKeyOrders, nx \in GridSizes :
           eqm = EquilibriumBuilt(keys, nx)
    /\ prof = ProfileBuilt("ConstrainPaxisIp", FALSE)
NextEquilibrium ==
    EquilibriumStep /\ UNCHANGED <<eulerVars, nkVars, nlVars, prof>>
SpecEquilibrium == InitEquilibrium /\ [][NextEquilibrium]_vars

InitJtor ==
    /\ EulerFixed /\ nks = NKIdle /\ NLFixed
    /\ eqm = EquilibriumBuilt(<<P1, P2, passive_0>>, 2)
    /\ \E class \in ProfileClasses, fast \in BOOLEAN :
           prof = ProfileBuilt(class, fast)
NextJtor == JtorStep /\ UNCHANGED <<eulerVars, nkVars, nlVars, eqm>>
SpecJtor == InitJtor /\ [][NextJtor]_vars

InitResistivity == EulerFixed /\ nks = NKIdle /\ UpdatesFixed /\ NLFixed
NextResistivity == ResistivityStep /\ UNCHANGED <<eulerVars, nkVars, updVars>>
SpecResistivity == InitResistivity /\ [][NextResistivity]_vars

\* a call on the initialised object; once entered it keeps executing
InitFairStepper == EulerFixed /\ nks = NKIdle /\ UpdatesFixed /\ NLFixed
FairStepper == InitFairStepper /\ [][NextStepper]_vars /\ WF_vars(NextStepper)

-----------------------------------------------------------------------------
(* C5 (as amended).  When NewtonKrylov.solve has returned, the flux stored *)
(* in eq is the last trial flux, and its relative residual is not above    *)
(* rel_convergence unless the iteration cap was reached (it >= max_iter),  *)
(* in which case the failure report was printed.                           *)
C5_ConvergedOrCapReached ==
    nks.pc = "done" =>
        /\ nks.eq_plasma_psi = nks.trial_plasma_psi
        /\ \/ ~Gt(nks.rel_change, nks.rel_convergence)
           \/ (nks.it >= nks.max_iter /\ nks.reported)

\* C5 as stated: after solve the stored flux meets rel_convergence, whatever
\* the starting flux and max_iter
C5_AlwaysConverged ==
    nks.pc = "done" =>
        (nks.rel_change # NaN /\ nks.rel_change <= nks.rel_convergence)

\* solve returned after using up max_iter >= 2 iterations, residual still high
C5_Witness ==
    /\ nks.pc = "done"
    /\ nks.max_iter >= 2
    /\ nks.it = nks.max_iter
    /\ Gt(nks.rel_change, nks.rel_convergence)

(* C6.  solve runs at most max_iter iterations and prints the failure      *)
(* report exactly when it stops with the relative residual still above     *)
(* rel_convergence.                                                        *)
C6_ReportIffNotConverged ==
    nks.pc = "done" =>
        /\ nks.it <= nks.max_iter
        /\ nks.reported <=> Gt(nks.rel_change, nks.rel_convergence)

-----------------------------------------------------------------------------
(* C8.  n_steps = ceil(full_timestep / max_internal_timestep) >= 1, the    *)
(* sub-step full_timestep / n_steps is at most max_internal_timestep, and  *)
(* full_stepper takes n_steps sub-steps covering full_timestep.            *)
Ceil(a, b) == (a + b - 1) \div b

C8_SubstepPolicy ==
    /\ ie.n_steps = Ceil(ie.full_timestep, ie.max_internal_timestep)
    /\ ie.n_steps >= 1
    /\ ie.internal_timestep = Frac(ie.full_timestep, ie.n_steps)
    /\ FLeq(ie.internal_timestep, FInt(ie.max_internal_timestep))
    /\ ie_out.op = "full_stepper" =>
           /\ ie_out.substeps = ie.n_steps
           /\ ie_out.elapsed = FInt(ie.full_timestep)

(* C9.  Whatever set_Mmatrix, set_Rmatrix and set_timesteps calls were     *)
(* made, and also after internal_stepper and full_stepper ran,             *)
(* inverse_operator is inv(1 + internal_timestep * inv(M) * R) for the     *)
(* current Mmatrix, Rmatrix and internal_timestep.                         *)
C9_InverseOperatorCurrent ==
    ie.inverse_operator =
        FInv(FAdd(FInt(1),
                  FMul(ie.internal_timestep, Frac(ie.Rmatrix, ie.Mmatrix))))

\* every setter was called, then a stepper ran
C9_Witness ==
    /\ {"set_Mmatrix", "set_Rmatrix", "set_timesteps", "internal_stepper"}
           \subseteq ie_called
    /\ ie_out.op = "full_stepper"
    /\ ie.n_steps >= 2

\* float a <= b: False when either side is nan
Leq(a, b) == a # NaN /\ b # NaN /\ a <= b

InCall == call.pc \in {"loop", "cycle_currents"}
Returned == call.pc = "returned"

\* C1: a non-linear nlstepper call reaches step_complete_assign only with
\* the latest relative current residual <= target_relative_tol_currents on
\* every component and the latest relative GS residual <=
\* target_relative_tol_GS, for any number of cycles, zero included.
C1_CommitOnlyWithBothResidualsMet ==
    (Returned /\ ~call.args.linear_only) =>
        /\ \A i \in 1 .. Len(call.rel_curr_res) :
               Leq(call.rel_curr_res[i], call.args.target_relative_tol_currents)
        /\ Leq(call.r_res_GS, call.args.target_relative_tol_GS)

\* C2: within a call, before step_complete_assign has run, eq1, profiles1,
\* currents_vec and time are as they were when the call was made.
C2_DurableUntouchedBeforeCommit ==
    InCall => /\ nl.eq1 = call.pre.eq1
              /\ nl.profiles1 = call.pre.profiles1
              /\ nl.currents_vec = call.pre.currents_vec
              /\ nl.time = call.pre.time

\* C3: every nlstepper call terminates: a call that has entered the outer
\* loop eventually returns.
C3_EveryCallReturns == InCall ~> Returned

\* C4: a call that has returned, in either mode, has run
\* step_complete_assign exactly once: time is dt_step later, currents_vec_m1
\* is the currents_vec held before the call and currents_vec is the final
\* trial_currents.
C4_ReturnedCommittedOnce ==
    Returned =>
        /\ nl.ops.commits = 1
        /\ nl.time = call.pre.time + nl.dt_step
        /\ nl.step_no = call.pre.step_no + 1
        /\ nl.currents_vec_m1 = call.pre.currents_vec
        /\ nl.currents_vec = nl.trial_currents

\* a non-linear call, made after an earlier step, that ran a cycle and
\* returned with new currents
C4_Witness ==
    /\ Returned /\ ~call.args.linear_only /\ call.n_it > 0
    /\ call.pre.step_no = 0
    /\ nl.currents_vec # call.pre.currents_vec
    /\ nl.currents_vec # call.linear_guess

\* C7: with linear_only=True the call runs the linearised stepper once and
\* one static GS solve, no residual evaluation and no NK cycle, and commits:
\* currents_vec is the linearised stepper's output and eq1/profiles1 equal
\* eq2/profiles2.
C7_LinearOnlyCommitsLinearGuess ==
    (Returned /\ call.args.linear_only) =>
        /\ nl.ops = [linear |-> 1, gs |-> 1, residual |-> 0, commits |-> 1]
        /\ call.n_it = 0 /\ call.cycle_log = <<>>
        /\ nl.currents_vec = call.linear_guess
        /\ nl.eq1 = nl.eq2 /\ nl.profiles1 = nl.profiles2
        /\ nl.eq1.plasma_psi = nl.trial_plasma_psi

\* a linear-only call that moved both the currents and the flux
C7_Witness ==
    /\ Returned /\ call.args.linear_only
    /\ nl.currents_vec # call.pre.currents_vec
    /\ nl.eq1.plasma_psi # call.pre.eq1.plasma_psi

\* C10: after construction and after any sequence of remove_modes,
\* reset_timestep and reset_plasma_resistivity calls, n_metal_modes equals
\* evol_metal_curr.n_independent_vars, extensive_currents_dim is
\* n_metal_modes + 1, and currents_vec, currents_vec_m1, circuit_eq_residual,
\* the columns of dIydI and the currents NK solver all have that length.
C10_ModeCountConsistent ==
    LET k == nl.n_metal_modes + 1
    IN  /\ nl.n_metal_modes = nl.evol_metal_curr.n_independent_vars
        /\ nl.extensive_currents_dim = k
        /\ Len(nl.currents_vec) = k
        /\ Len(nl.currents_vec_m1) = k
        /\ Len(nl.circuit_eq_residual) = k
        /\ Len(nl.dIydI) = k
        /\ nl.currents_nk_solver.dim = k

\* C11: with mode_removal=True the construction retains all active coils,
\* the plasma-current entry and exactly the passive modes whose Jacobian
\* column norm is not below min_dIy_dI; a passive mode is dropped if and
\* only if its norm is < min_dIy_dI.
C11_DroppedIffNormBelowThreshold ==
    (call.pc = "constructed" /\ call.ctor.mode_removal) =>
        LET n == call.ctor.n_modes
            norms == call.ctor.column_norms
            kept == [j \in 1 .. n + 1 |->
                        \/ j <= NActive
                        \/ j = n + 1
                        \/ ~(norms[j] < min_dIy_dI)]
        IN  /\ \A j \in 1 .. n : nl.selected_modes_mask[j] = kept[j]
            /\ nl.dIydI = Compress(norms, kept)

\* C12: initialize_from_ICs with dIydI=None on a new equilibrium re-anchors
\* the linearisation: the Jacobian handed to the linear solver is the one
\* that finite differences around the provided equilibrium yield, not one
\* kept from an earlier linearisation point.
C12_JacobianRecomputedOnReinitialisation ==
    (call.pc = "initialize_from_ICs" /\ ~call.args.dIydI.given) =>
        /\ nl.dIydI = call.args.column_norms
        /\ nl.linearised_sol.dIydI = call.args.column_norms

\* C13: after any sequence of nlstepper / check_and_change_plasma_resistivity
\* calls the plasma resistance vector derived from the stored
\* plasma_resistivity is the one held by nl_solver, the linearised solver,
\* the simplified solver and evol_plasma_curr.Ryy; a call replaces the stored
\* value exactly when the requested value differs from it by more than the
\* relative threshold, and otherwise leaves it.
C13_ResistanceConsistentAndThresholded ==
    LET r1d == PlasmaResistance1d(nl.plasma_resistivity)
        requested == call.args.plasma_resistivity
        stored == call.pre.plasma_resistivity
    IN  /\ nl.plasma_resistance_1d = r1d
        /\ nl.linearised_sol.plasma_resistance_1d = r1d
        /\ nl.simplified_solver_J1.plasma_resistance_1d = r1d
        /\ nl.evol_plasma_curr.Ryy = r1d
        /\ call.pc \in {"returned", "checked"} =>
               nl.plasma_resistivity =
                   IF /\ requested.given
                      /\ ThresholdDen * Abs(requested.value - stored) > stored
                   THEN requested.value
                   ELSE stored

\* a request exactly at the threshold was left aside after an earlier
\* request had replaced the stored value
C13_Witness ==
    /\ call.pc \in {"returned", "checked"}
    /\ call.args.plasma_resistivity.given
    /\ call.pre.plasma_resistivity = 102
    /\ call.args.plasma_resistivity.value = 101
    /\ nl.plasma_resistivity = 102

C15_CallerObjectsUntouched ==
    /\ nl.store["eq"] = call.given.eq
    /\ nl.store["profile"] = call.given.profile
    /\ {nl.eq1, nl.profiles1, nl.eq2, nl.profiles2} \cap {"eq", "profile"} = {}

\* a non-linear step has moved the solver's equilibrium and profile away
\* from the caller's in every attribute
C15_Witness ==
    /\ call.pc = "returned"
    /\ nl.store[nl.eq1].plasma_psi # nl.store["eq"].plasma_psi
    /\ nl.store[nl.eq1].tokamak # nl.store["eq"].tokamak
    /\ nl.store[nl.profiles1].Ip # nl.store["profile"].Ip
    /\ nl.store[nl.profiles1].par # nl.store["profile"].par
    /\ nl.store[nl.eq2] # nl.store["eq"]

\* C16: initialize_from_equilibrium uses the stored equilibrium if and only
\* if the set of the names on file that do not start with 'passive' equals
\* the set of such names in the machine, in whatever order the names are
\* listed.
C16_UsedIffActiveNameSetsEqual ==
    eqm.pc = "initialized" =>
        (eqm.used <=>
            {c \in Range(eqm.equilibrium_data.coil_currents.keys) : IsActive(c)}
                = {c \in Range(eqm.tokamak.keys) : IsActive(c)})

\* C17: when the stored equilibrium is used, every active coil current is
\* the stored one and plasma_psi is twice the stored flux, interpolated to
\* the grid only if the shapes differ; when it is not used, no coil current
\* and no plasma_psi value has changed.
C17_AcceptedAssignsRejectedKeeps ==
    eqm.pc = "initialized" =>
        LET file == eqm.equilibrium_data
        IN  IF eqm.used
            THEN /\ \A c \in Range(eqm.tokamak.keys) :
                        IsActive(c) =>
                            eqm.tokamak.current[c] = file.coil_currents.values[c]
                 /\ eqm.plasma_psi =
                        Times(FInt(2),
                              IF Len(file.plasma_psi) = eqm.nx
                              THEN file.plasma_psi
                              ELSE Interpolate(file.plasma_psi, eqm.nx))
            ELSE /\ eqm.tokamak.current = eqm.pre.current
                 /\ eqm.plasma_psi = eqm.pre.plasma_psi

\* a stored equilibrium on three points, with a passive coil listed, was
\* used on a grid of two points
C17_Witness ==
    /\ eqm.pc = "initialized"
    /\ eqm.used
    /\ eqm.nx = 2
    /\ Len(eqm.equilibrium_data.plasma_psi) = 3
    /\ passive_1 \in Range(eqm.equilibrium_data.coil_currents.keys)
    /\ eqm.tokamak.current[P1] = 3
    /\ eqm.plasma_psi = <<FInt(2), FInt(4)>>

\* C18: adjust_psi_plasma always returns without raising, having multiplied
\* plasma_psi by 1.5 at most 10 times.
C18_AdjustReturns ==
    eqm.pc = "adjusted" =>
        /\ ~eqm.adjust.raised
        /\ eqm.adjust.n_up <= MaxScaleUp

C20_LimiterFlagOnBothPaths ==
    prof.pc # "constructed" =>
        /\ "limiter_flag" \in prof.has
        /\ prof.last.core_mask_limiter =>
               prof.val.limiter_flag = prof.last.flag
        /\ prof.last.xpt = <<>> =>
               prof.pc = "returned" /\ ~prof.val.limiter_flag

\* C21: every cycle of the while of nlstepper runs, in this order, the GS
\* blend if and only if the relative GS residual of the end of the previous
\* cycle was above target_relative_tol_GS (never in the first cycle), the NK
\* update of psi if and only if relative_psi_res is above
\* max_no_NK_psi * target_relative_tol_GS, the NK update of the currents,
\* and the recomputation of both residuals, which decides on another cycle.
C21_CycleOrder ==
    LET a == call.args
        psi_part(blended) ==
            (IF blended THEN <<"GS_blend">> ELSE <<>>)
                \o <<"psi_residual">>
                \o (IF Gt(call.relative_psi_res,
                          a.max_no_NK_psi * a.target_relative_tol_GS)
                    THEN <<"NK_psi">> ELSE <<>>)
        currents_part == <<"NK_currents", "residuals">>
    IN  /\ call.pc = "cycle_currents" =>
               call.cycle_log =
                   psi_part(call.n_it > 0
                                /\ Gt(call.r_res_GS, a.target_relative_tol_GS))
        /\ (call.pc = "loop" /\ call.cycle_log # <<>>) =>
               /\ \E b, n \in BOOLEAN :
                      call.cycle_log =
                          (IF b THEN <<"GS_blend">> ELSE <<>>)
                              \o <<"psi_residual">>
                              \o (IF n THEN <<"NK_psi">> ELSE <<>>)
                              \o currents_part
               /\ call.control <=>
                      \/ AnyAbove(call.rel_curr_res, a.target_relative_tol_currents)
                      \/ Gt(call.r_res_GS, a.target_relative_tol_GS)

\* a later cycle has blended in the GS solution and run the NK update of psi
C21_Witness ==
    /\ call.pc = "cycle_currents"
    /\ call.n_it > 0
    /\ call.cycle_log = <<"GS_blend", "psi_residual", "NK_psi">>

-----------------------------------------------------------------------------
(* nl_solver.build_linearization, column by column.  Currents are          *)
(* fractions of an ampere; <<1, 0>> is the float inf and <<0, 0>> the      *)
(* float nan.  The current density a static GS solve leaves in profiles2   *)
(* is held as the pair of the currents it was solved for and its relative  *)
(* distance norm(dIy)/nIy from the reference distribution.                 *)

LinModes == 1
FInf == <<1, 0>>
FNaN == <<0, 0>>
FZero == <<0, 1>>
IsFinite(x) == x[2] # 0

\* a / b on floats
FDiv(a, b) ==
    IF b[1] # 0 THEN FMul(a, FInv(b)) ELSE IF a[1] = 0 THEN FNaN ELSE FInf
FAbs(a) == <<Abs(a[1]), a[2]>>

\* min_curr=1e-4, max_curr=300 and the floor 50 of the metal steps
min_curr == <<1, 10000>>
max_curr == <<300, 1>>
MetalStepFloor == <<50, 1>>
target_dIy == <<1, 1000>>

\* np.clip(x, lo, hi): nan stays nan
clip(x, lo, hi) ==
    IF x = FNaN THEN FNaN
    ELSE IF x = FInf THEN hi
    ELSE IF FLeq(x, lo) THEN lo
    ELSE IF FLeq(hi, x) THEN hi
    ELSE x

\* the metal currents and Ip/plasma_norm_factor of the equilibria linearised
MetalCurrents == {FZero, <<0 - 80000, 1>>}
NormalisedPlasmaCurrents == {<<500, 1>>, <<0 - 2000, 1>>}
LinearizationPoints ==
    {[i \in 1 .. LinModes + 1 |-> IF i <= LinModes THEN m ELSE p] :
         m \in MetalCurrents, p \in NormalisedPlasmaCurrents}
\* norm(dIy)/nIy of the distributions the probes yield
RelativeShifts == {FZero, <<1, 1000>>, <<1, 1000000>>, <<10, 1>>}

FZeros(n) == [i \in 1 .. n |-> FZero]

\* the object when initialize_from_ICs calls build_linearization: currents_vec
\* built from eq1, eq2 a copy of eq1, no Jacobian yet
LinearizationReady(currents_vec) ==
    [currents_vec |-> currents_vec,
     current_at_last_linearization |-> currents_vec,
     Iy |-> [currents |-> currents_vec, shift |-> FZero],
     nIy |-> FInt(1),
     eq2 |-> [currents |-> currents_vec],
     profiles2 |-> [jtor |-> [currents |-> currents_vec, shift |-> FZero]],
     final_dI_record |-> <<>>,
     dIydI |-> <<>>,
     dIydI_ICs |-> <<>>]

\* the local variables of build_linearization; ref is the reference state
\* (currents_vec, Iy) as it stood when the loops over the columns began
LinearizationIdle ==
    [pc |-> "idle", j |-> 0, starting_dI |-> <<>>, ref |-> <<>>]

\* assign_currents_solve_GS(current_, rtol_NK): the currents go to eq2 and
\* profiles2, and the static GS solve leaves the distribution jtor
assign_currents_solve_GS_probe(s, current_, shift) ==
    [s EXCEPT !.eq2 = [@ EXCEPT !.currents = current_],
              !.profiles2 = [@ EXCEPT !.jtor =
                                 [currents |-> current_, shift |-> shift]]]

\* prepare_build_dIydI_j without np.clip
prepare_build_dIydI_j_Unclipped(s, j, starting_dI, shift) ==
    LET current_ == [s.currents_vec EXCEPT ![j] = FAdd(@, starting_dI)]
        s1 == assign_currents_solve_GS_probe(s, current_, shift)
        rel_ndIy_0 == s1.profiles2.jtor.shift
        final_dI == FDiv(FMul(starting_dI, target_dIy), rel_ndIy_0)
    IN  [s1 EXCEPT !.final_dI_record[j] = final_dI]

\* prepare_build_dIydI_j(j, rtol_NK, target_dIy, starting_dI)
prepare_build_dIydI_j(s, j, starting_dI, shift) ==
    LET current_ == [s.currents_vec EXCEPT ![j] = FAdd(@, starting_dI)]
        s1 == assign_currents_solve_GS_probe(s, current_, shift)
        rel_ndIy_0 == s1.profiles2.jtor.shift
        final_dI == clip(FDiv(FMul(starting_dI, target_dIy), rel_ndIy_0),
                         min_curr, max_curr)
    IN  [s1 EXCEPT !.final_dI_record[j] = final_dI]

\* build_dIydI_j(j, rtol_NK): the column (Iy_from_jtor(jtor) - Iy) / final_dI
build_dIydI_j(s, j, shift) ==
    LET final_dI == s.final_dI_record[j]
        current_ == [s.currents_vec EXCEPT ![j] = FAdd(@, final_dI)]
        s1 == assign_currents_solve_GS_probe(
                  [s EXCEPT !.current_at_last_linearization[j] =
                                s.currents_vec[j]],
                  current_, shift)
    IN  [s1 EXCEPT !.dIydI[j] =
             [minuend |-> s1.profiles2.jtor, subtrahend |-> s.Iy,
              dI |-> final_dI]]

\* build_linearization up to the loops: with no Jacobian given or stored,
\* forward_solve(eq, profile), build_current_vec and Iy, nIy; starting_dI
\* from abs(currents_vec) * target_dIy, the metal steps raised to 50; the
\* Jacobian and final_dI_record zeroed
linearization_begin(dIydI) ==
    /\ call.pc = "idle"
    /\ IF dIydI.given
       THEN /\ nl' = [nl EXCEPT !.dIydI = dIydI.value,
                               !.dIydI_ICs = dIydI.value]
            /\ call' = [call EXCEPT !.pc = "done"]
       ELSE LET n == Len(nl.currents_vec)
                s0 == [nl EXCEPT !.Iy = [currents |-> nl.currents_vec,
                                         shift |-> FZero],
                                 !.nIy = FInt(1)]
                scaled == [i \in 1 .. n |->
                              FMul(FAbs(s0.currents_vec[i]), target_dIy)]
                starting_dI ==
                    [i \in 1 .. n |->
                        IF i < n /\ FLeq(scaled[i], MetalStepFloor)
                        THEN MetalStepFloor ELSE scaled[i]]
            IN  /\ nl' = [s0 EXCEPT !.dIydI = FZeros(n),
                                    !.final_dI_record = FZeros(n)]
                /\ call' = [pc |-> "prepare", j |-> 1,
                            starting_dI |-> starting_dI,
                            ref |-> [currents_vec |-> s0.currents_vec,
                                     Iy |-> s0.Iy]]

\* one pass of the first loop over arange_currents
linearization_prepare(shift) ==
    /\ call.pc = "prepare"
    /\ nl' = prepare_build_dIydI_j(nl, call.j, call.starting_dI[call.j], shift)
    /\ call' = IF call.j < Len(nl.currents_vec)
               THEN [call EXCEPT !.j = @ + 1]
               ELSE [call EXCEPT !.pc = "build", !.j = 1]

\* one pass of the second loop; after the last, dIydI_ICs = np.copy(dIydI)
linearization_column(shift) ==
    /\ call.pc = "build"
    /\ LET s1 == build_dIydI_j(nl, call.j, shift)
       IN  IF call.j < Len(nl.currents_vec)
           THEN /\ nl' = s1
                /\ call' = [call EXCEPT !.j = @ + 1]
           ELSE /\ nl' = [s1 EXCEPT !.dIydI_ICs = s1.dIydI]
                /\ call' = [call EXCEPT !.pc = "done", !.j = @ + 1]

GivenJacobians ==
    {NoJacobian, [given |-> TRUE, value |-> <<"dIydI">>]}

LinearizationStep ==
    \/ \E dIydI \in GivenJacobians : linearization_begin(dIydI)
    \/ \E shift \in RelativeShifts : linearization_prepare(shift)
    \/ \E shift \in RelativeShifts : linearization_column(shift)

InitLinearization ==
    /\ EulerFixed /\ nks = NKIdle /\ UpdatesFixed
    /\ \E c \in LinearizationPoints : nl = LinearizationReady(c)
    /\ call = LinearizationIdle
NextLinearization ==
    LinearizationStep /\ UNCHANGED <<eulerVars, nkVars, updVars>>
SpecLinearization == InitLinearization /\ [][NextLinearization]_vars

-----------------------------------------------------------------------------
(* nl_solver.check_and_change_profiles, attribute by attribute.  A profile *)
(* is the function from its parameter names to their values, with the      *)
(* parameter values its last initialize_profile() worked from; a           *)
(* dictionary is the sequence of its <<key, value>> items in insertion     *)
(* order, None the record [given |-> FALSE].                               *)

ProfileTypes == {"ConstrainPaxisIp", "Lao85"}
\* the keys of get_profiles_values
ParameterKeys(profile_type) ==
    IF profile_type = "Lao85" THEN {"alpha", "beta"} ELSE {"paxis", "alpha_m"}
NewValues == {1, 2}

ParameterDicts(profile_type) ==
    LET K == ParameterKeys(profile_type)
    IN  {<<>>}
            \cup {<< <<k, v>> >> : k \in K, v \in NewValues}
            \cup {<< <<k1, v1>>, <<k2, v2>> >> :
                      <<k1, k2>> \in {kk \in K \X K : kk[1] # kk[2]},
                      <<v1, v2>> \in NewValues \X NewValues}
ParameterRequests(profile_type) ==
    {[given |-> FALSE, items |-> <<>>]}
        \cup {[given |-> TRUE, items |-> d] : d \in ParameterDicts(profile_type)}

\* a profile object of the type as constructed, every parameter at 0
TypedProfile(profile_type) ==
    [attrs |-> [k \in ParameterKeys(profile_type) |-> 0],
     initialized |-> [k \in ParameterKeys(profile_type) |-> 0],
     initialize_calls |-> 0]

\* the solver after initialize_from_ICs: profiles1 and profiles2 are deep
\* copies of the same profile, profile_type is its class name
ProfilesInitialized(profile_type) ==
    [profile_type |-> profile_type,
     profiles1 |-> TypedProfile(profile_type),
     profiles2 |-> TypedProfile(profile_type),
     profile_change_flag |-> 0]

\* profile.initialize_profile(): works from the parameters as they are
initialize_profile(profile) ==
    [profile EXCEPT !.initialized = profile.attrs, !.initialize_calls = 1]

\* setattr(profile, par, value)
setattr(profile, par, value) == [profile EXCEPT !.attrs[par] = value]

\* the body of the for loop, from item i of the dictionary on, which leaves
\* profiles2 alone
RECURSIVE change_profiles_from_OnlyProfiles1(_, _, _)
change_profiles_from_OnlyProfiles1(s, items, i) ==
    IF i > Len(items) THEN s
    ELSE LET par == items[i][1]
             s1 == [s EXCEPT !.profiles1 = setattr(@, par, items[i][2])]
             s2 == IF s.profile_type = "Lao85"
                   THEN [s1 EXCEPT !.profiles1 = initialize_profile(@)]
                   ELSE s1
         IN  change_profiles_from_OnlyProfiles1(s2, items, i + 1)

\* the body of the for loop, from item i of the dictionary on
RECURSIVE change_profiles_from(_, _, _)
change_profiles_from(s, items, i) ==
    IF i > Len(items) THEN s
    ELSE LET par == items[i][1]
             s1 == [s EXCEPT !.profiles1 = setattr(@, par, items[i][2]),
                             !.profiles2 = setattr(@, par, items[i][2])]
             s2 == IF s.profile_type = "Lao85"
                   THEN [s1 EXCEPT !.profiles1 = initialize_profile(@),
                                   !.profiles2 = initialize_profile(@)]
                   ELSE s1
         IN  change_profiles_from(s2, items, i + 1)

\* check_and_change_profiles(profile_parameters); the counts of
\* initialize_profile calls are taken per call
check_and_change_profiles_attrs(s, profile_parameters) ==
    LET s0 == [s EXCEPT !.profile_change_flag = 0,
                        !.profiles1.initialize_calls = 0,
                        !.profiles2.initialize_calls = 0]
    IN  IF profile_parameters.given
        THEN [change_profiles_from(s0, profile_parameters.items, 1)
                  EXCEPT !.profile_change_flag = 1]
        ELSE s0

\* call holds the argument of the call and the profiles as they were
call_check_and_change_profiles(profile_parameters) ==
    /\ nl' = check_and_change_profiles_attrs(nl, profile_parameters)
    /\ call' = [pc |-> "check_and_change_profiles",
                profile_parameters |-> profile_parameters,
                pre |-> [profiles1 |-> nl.profiles1.attrs,
                         profiles2 |-> nl.profiles2.attrs]]

ProfilesStep ==
    \E p \in ParameterRequests(nl.profile_type) :
        call_check_and_change_profiles(p)

InitProfiles ==
    /\ EulerFixed /\ nks = NKIdle /\ UpdatesFixed
    /\ \E t \in ProfileTypes : nl = ProfilesInitialized(t)
    /\ call = [pc |-> "initialized",
               profile_parameters |-> [given |-> FALSE, items |-> <<>>],
               pre |-> [profiles1 |-> nl.profiles1.attrs,
                        profiles2 |-> nl.profiles2.attrs]]
NextProfiles == ProfilesStep /\ UNCHANGED <<eulerVars, nkVars, updVars>>
SpecProfiles == InitProfiles /\ [][NextProfiles]_vars

-----------------------------------------------------------------------------
(* NewtonKrylov.Arnoldi_iteration.  The object counts the evaluations of   *)
(* _F and holds the directions as the sequence of the relative unexplained *)
(* residuals dpsi found with them; conv_crit and the residuals are levels. *)

MaxDirections == 3
ConvCrits == {1, 2}
UnexplainedResiduals == {0, 1, 2, 3}

ArnoldiIdle ==
    [pc |-> "idle", n_k |-> 0, conv_crit |-> 0, Fresidual_given |-> TRUE,
     n_it |-> 0, arnoldi_control |-> TRUE, F_calls |-> 0,
     Q |-> <<>>, rel_unexpl_res |-> NoValue]

\* a while condition that lets the basis grow to n_k + 1 directions
arnoldi_while_OneMore(s) == s.arnoldi_control /\ s.n_it <= s.n_k

\* while arnoldi_control*(n_it<n_k)>0
arnoldi_while(s) == s.arnoldi_control /\ s.n_it < s.n_k

\* Arnoldi_iteration up to the while: _F(plasma_psi) if no residual was
\* handed in, n_it = 0, arnoldi_control = 1
arnoldi_enter(n_k, conv_crit, Fresidual_given) ==
    /\ nks.pc = "idle"
    /\ nks' = [ArnoldiIdle EXCEPT !.pc = "while", !.n_k = n_k,
                   !.conv_crit = conv_crit,
                   !.Fresidual_given = Fresidual_given,
                   !.F_calls = IF Fresidual_given THEN 0 ELSE 1]

\* one pass of the while: ri = _F(plasma_psi + candidate_dpsi), the
\* direction goes to Q and G, n_it += 1, dpsi on the basis so far, and
\* arnoldi_control = (rel_unexpl_res > conv_crit)
arnoldi_direction(rel_unexpl_res) ==
    /\ nks.pc = "while"
    /\ arnoldi_while(nks)
    /\ nks' = [nks EXCEPT !.F_calls = @ + 1,
                   !.Q = Append(@, rel_unexpl_res),
                   !.n_it = @ + 1,
                   !.rel_unexpl_res = rel_unexpl_res,
                   !.arnoldi_control = Gt(rel_unexpl_res, nks.conv_crit)]

\* the while has ended: Arnoldi_iteration returns
arnoldi_return ==
    /\ nks.pc = "while"
    /\ ~arnoldi_while(nks)
    /\ nks' = [nks EXCEPT !.pc = "returned"]

ArnoldiStep ==
    \/ \E n_k \in 0 .. MaxDirections, conv_crit \in ConvCrits,
          given \in BOOLEAN :
           arnoldi_enter(n_k, conv_crit, given)
    \/ \E r \in UnexplainedResiduals : arnoldi_direction(r)
    \/ arnoldi_return

InitArnoldi ==
    /\ EulerFixed /\ nks = ArnoldiIdle /\ UpdatesFixed /\ NLFixed
NextArnoldi == ArnoldiStep /\ UNCHANGED <<eulerVars, nlVars, updVars>>
SpecArnoldi == InitArnoldi /\ [][NextArnoldi]_vars

ScaleDown == <<10, 11>>

\* C25: when the scale-down of adjust_psi_plasma has found an X-point,
\* plasma_psi is the flux that produced it, the scaled-up flux divided by
\* 1.1 once per attempt; when it has not, plasma_psi is the flux the
\* scale-up phase reached.
C25_ScaleDownReplacesFlux ==
    eqm.pc = "adjusted" /\ eqm.adjust.opoint_flag =>
        LET up == Power(ScaleUp, eqm.adjust.n_up)
            down == Power(ScaleDown, eqm.adjust.n_down)
        IN  IF eqm.adjust.xpoint_flag /\ eqm.adjust.n_down > 0
            THEN eqm.plasma_psi = Times(FMul(up, down), eqm.pre.plasma_psi)
            ELSE eqm.plasma_psi = Times(up, eqm.pre.plasma_psi)

-----------------------------------------------------------------------------
(* Equilibrium.psi_func.  The grid is a row of GridPoints points, a flux   *)
(* the sequence of its values there in units of 1e-5; a spline is held as  *)
(* the flux it was built from, which it reproduces at the grid points.     *)

GridPoints == 3
FluxLevels == {0, 1, 5}
Fluxes == [1 .. GridPoints -> FluxLevels]

\* the 1e-5 of the check, in the units of the flux
InterpTolerance == 1

\* interpolate.RectBivariateSpline(R[:, 0], Z[0, :], plasma_psi)
RectBivariateSpline(plasma_psi) == plasma_psi

\* Equilibrium.__init__: the spline is built from the flux as initialised;
\* nxh = len(R) // 2, as a position counted from 1
EquilibriumWithSpline(plasma_psi) ==
    [pc |-> "built", plasma_psi |-> plasma_psi,
     psi_func_interp |-> RectBivariateSpline(plasma_psi),
     nxh |-> GridPoints \div 2 + 1,
     returned |-> <<>>]

\* eq.plasma_psi = ..., as the solvers assign it
assign_plasma_psi(plasma_psi) ==
    /\ plasma_psi # eqm.plasma_psi
    /\ eqm' = [eqm EXCEPT !.pc = "assigned", !.plasma_psi = plasma_psi]

\* psi_func(R, Z): the spline is rebuilt when its value at the grid point
\* (nxh, nyh) is off the flux there by more than 1e-5
psi_func(e) ==
    LET check == Abs(e.psi_func_interp[e.nxh] - e.plasma_psi[e.nxh])
                     > InterpTolerance
        e1 == IF check
              THEN [e EXCEPT !.psi_func_interp =
                                 RectBivariateSpline(e.plasma_psi)]
              ELSE e
    IN  [e1 EXCEPT !.returned = e1.psi_func_interp]

call_psi_func ==
    /\ eqm' = [psi_func(eqm) EXCEPT !.pc = "psi_func"]

PsiFuncStep ==
    \/ \E plasma_psi \in Fluxes : assign_plasma_psi(plasma_psi)
    \/ call_psi_func

InitPsiFunc ==
    /\ EulerFixed /\ nks = NKIdle /\ NLFixed
    /\ prof = ProfileBuilt("ConstrainPaxisIp", FALSE)
    /\ \E plasma_psi \in Fluxes : eqm = EquilibriumWithSpline(plasma_psi)
NextPsiFunc == PsiFuncStep /\ UNCHANGED <<eulerVars, nkVars, nlVars, prof>>
SpecPsiFunc == InitPsiFunc /\ [][NextPsiFunc]_vars

\* C26: what psi_func returns are the values of a spline built from
\* plasma_psi as it is at the call, whatever changes of plasma_psi came
\* before.
C26_PsiFuncFromCurrentFlux ==
    eqm.pc = "psi_func" => eqm.returned = RectBivariateSpline(eqm.plasma_psi)

-----------------------------------------------------------------------------
(* nl_solver.calculate_hatIy_GS and F_function_curr_GS.  A call raises     *)
(* TypeError when it passes a keyword the callee has no parameter for.     *)

\* def assign_currents_solve_GS(self, currents_vec, rtol_NK)
assign_currents_solve_GS_parameters == {"currents_vec", "rtol_NK"}

\* binding of a call with one positional argument and the keywords given
Binds(parameters, keywords) == keywords \subseteq parameters

NotCalled == [pc |-> "idle", trial_currents |-> <<>>,
              record_for_updates |-> FALSE, raised |-> FALSE,
              returned |-> NoValue]

\* calculate_hatIy_GS(trial_currents, rtol_NK, record_for_updates): calls
\* assign_currents_solve_GS(trial_currents, rtol_NK=rtol_NK,
\* record_for_updates=record_for_updates) and returns
\* hat_Iy_from_jtor(profiles2.jtor); the result is the pair of the object
\* after the call and what the call returned or raised
calculate_hatIy_GS(s, trial_currents, record_for_updates, psi_new) ==
    IF Binds(assign_currents_solve_GS_parameters,
             {"rtol_NK", "record_for_updates"})
    THEN LET s1 == assign_currents_solve_GS(s, trial_currents, psi_new)
         IN  [state |-> s1, raised |-> FALSE, value |-> s1.profiles2.jtor]
    ELSE [state |-> s, raised |-> TRUE, value |-> NoValue]

\* F_function_curr_GS(trial_currents, active_voltage_vec, rtol_NK):
\* calculate_hatIy_GS(..., record_for_updates=False), then
\* currents_from_hatIy, which yields iterated_currs
F_function_curr_GS(s, trial_currents, psi_new, iterated_currs) ==
    LET h == calculate_hatIy_GS(s, trial_currents, FALSE, psi_new)
    IN  IF h.raised THEN h
        ELSE [state |-> [h.state EXCEPT !.hatIy1_last = h.value],
              raised |-> FALSE,
              value |-> [i \in DOMAIN trial_currents |->
                            iterated_currs[i] - trial_currents[i]]]

call_assign_currents_solve_GS(currents_vec, psi_new) ==
    /\ nl' = assign_currents_solve_GS(nl, currents_vec, psi_new)
    /\ call' = [NotCalled EXCEPT !.pc = "assign_currents_solve_GS",
                                 !.trial_currents = currents_vec]

call_calculate_hatIy_GS(trial_currents, record_for_updates, psi_new) ==
    LET h == calculate_hatIy_GS(nl, trial_currents, record_for_updates, psi_new)
    IN  /\ nl' = h.state
        /\ call' = [pc |-> "calculate_hatIy_GS",
                    trial_currents |-> trial_currents,
                    record_for_updates |-> record_for_updates,
                    raised |-> h.raised, returned |-> h.value]

call_F_function_curr_GS(trial_currents, psi_new, iterated_currs) ==
    LET h == F_function_curr_GS(nl, trial_currents, psi_new, iterated_currs)
    IN  /\ nl' = h.state
        /\ call' = [pc |-> "F_function_curr_GS",
                    trial_currents |-> trial_currents,
                    record_for_updates |-> FALSE,
                    raised |-> h.raised, returned |-> h.value]

HatIyGSStep ==
    \/ \E c \in CurrentVectors(nl.extensive_currents_dim), psi \in PsiValues :
           call_assign_currents_solve_GS(c, psi)
    \/ \E c \in CurrentVectors(nl.extensive_currents_dim),
          r \in BOOLEAN, psi \in PsiValues :
           call_calculate_hatIy_GS(c, r, psi)
    \/ \E c, it \in CurrentVectors(nl.extensive_currents_dim),
          psi \in PsiValues :
           call_F_function_curr_GS(c, psi, it)

InitHatIyGS ==
    /\ EulerFixed /\ nks = NKIdle /\ UpdatesFixed
    /\ nl \in AfterLinearSteps(PriorSteps)
    /\ call = NotCalled
NextHatIyGS == HatIyGSStep /\ UNCHANGED <<eulerVars, nkVars, updVars>>
SpecHatIyGS == InitHatIyGS /\ [][NextHatIyGS]_vars

\* C27: calculate_hatIy_GS and F_function_curr_GS return, whatever
\* record_for_updates is, and what they return comes from the static GS
\* solve on eq2 for the currents given: eq2 holds those currents and the
\* distribution returned is the one the solve left in profiles2.
C27_HatIyGSReturns ==
    call.pc \in {"calculate_hatIy_GS", "F_function_curr_GS"} =>
        /\ ~call.raised
        /\ nl.eq2.tokamak = IdtoIvessel(Metal(call.trial_currents))
        /\ call.pc = "calculate_hatIy_GS" => call.returned = nl.profiles2.jtor

\* C28: right after a construction with mode_removal=True, currents_vec
\* holds the currents of the input equilibrium in the retained modes (every
\* current of that equilibrium is at level 1).
C28_ConstructedHoldsInputCurrents ==
    call.pc = "constructed" /\ call.ctor.mode_removal =>
        nl.currents_vec = [i \in 1 .. nl.n_metal_modes + 1 |-> 1]

\* C29: when nlstepper has returned, step_complete_assign has left
\* d_plasma_psi_step > 0 and rtol_NK = working_relative_tol_GS *
\* d_plasma_psi_step > 0, also when the plasma flux did not change.
C29_FluxStepPositive ==
    call.pc = "returned" => nl.d_plasma_psi_step > 0 /\ nl.rtol_NK > 0

\* C30: initialize_from_ICs leaves time = 0, step_no = -1 and
\* step_counter = 0; every nlstepper call that returns raises step_no by
\* exactly 1 and time by dt_step, and nothing else changes them, so after n
\* returned calls step_no is n - 1 and time the sum of the n dt_step;
\* step_counter stays 0.
C30_StepNumbering ==
    /\ nl.time = 0 /\ nl.step_no = 0 - 1 /\ nl.step_counter = 0
    /\ [][/\ nl'.step_counter = 0
          /\ IF call'.pc = "returned"
             THEN /\ nl'.step_no = nl.step_no + 1
                  /\ nl'.time = nl.time + nl.dt_step
             ELSE /\ nl'.step_no = nl.step_no
                  /\ nl'.time = nl.time]_vars

\* two calls have returned: step_no is 1 and time twice dt_step
C30_Witness ==
    /\ call.pc = "returned"
    /\ call.pre.step_no = 0
    /\ nl.step_no = 1
    /\ nl.time = 2 * nl.dt_step
    /\ nl.step_counter = 0

=============================================================================
